---- MODULE Spec2Model ----
(***************************************************************************)
(* configsync: the symlink synchronizer (internal/symlink/manager.go) and  *)
(* the backup store it calls (internal/backup/manager.go), over a model of *)
(* the filesystem objects they probe and change.                           *)
(*                                                                         *)
(* One application with NPaths tracked paths.  For tracked path p the      *)
(* filesystem holds                                                        *)
(*   fs.src[p]    what is at the expanded source path,                     *)
(*   fs.ext[p]    what is at the foreign place a foreign symlink found at  *)
(*                source points to,                                        *)
(*   fs.store[p]  what is at storeDir/Destination,                         *)
(*   fs.dirs      the directories that exist below storeDir,               *)
(*   fs.bfiles    the snapshots below backupDir/files, by address,         *)
(*   fs.binfo     the sidecar documents below backupDir/info, by address,  *)
(*   fs.now       the day time.Now() reads.                                *)
(* storeDir is absolute (root.go: configDir is homeDir/.configsync), so    *)
(* the text of a symlink the tool creates is the store path itself.        *)
(***************************************************************************)
EXTENDS Naturals, Sequences, FiniteSets, TLC

NPaths == 2

Paths == 1..NPaths

-----------------------------------------------------------------------------
(* Strings the code computes on are sequences of one-character strings.    *)

HomeDir == <<"/", "h">>

AppName == "app"

\* appName handed to BackupPath by moveSourceToStore
TempApp == "temp"

SourceOf(i) == <<"~", "/">> \o [k \in 1..i |-> "s"]

DestOf(i) ==
  IF i = 1 THEN <<"a", "/", "b">>
  ELSE IF i = 2 THEN <<"a", "_", "b">>
  ELSE [k \in 1..i |-> "c"]

PathType == {"file", "directory"}

Join(a, b) == a \o <<"/">> \o b

expandPath(path) ==
  IF Len(path) >= 2 /\ SubSeq(path, 1, 2) = <<"~", "/">>
  THEN Join(HomeDir, SubSeq(path, 3, Len(path)))
  ELSE path

\* strings.ReplaceAll(s, "/", "_") then strings.ReplaceAll(s, " ", "_")
safeName(s) == [k \in 1..Len(s) |-> IF s[k] \in {"/", " "} THEN "_" ELSE s[k]]

getBackupPath(appName, destination) == <<"files", appName, safeName(destination)>>

getBackupInfoPath(appName, originalPath) == <<"info", appName, safeName(originalPath)>>

\* filepath.Dir of a destination below storeDir: <<>> is storeDir itself
RECURSIVE LastSlash(_, _)
LastSlash(s, k) == IF k = 0 THEN 0 ELSE IF s[k] = "/" THEN k ELSE LastSlash(s, k - 1)

DirOf(dest) ==
  LET k == LastSlash(dest, Len(dest)) IN IF k = 0 THEN <<>> ELSE SubSeq(dest, 1, k - 1)

\* os.MkdirAll(d): d and every ancestor of d below storeDir
MkdirAllSet(d) ==
  {<<>>, d} \cup {SubSeq(d, 1, k - 1) : k \in {j \in 1..Len(d) : d[j] = "/"}}

-----------------------------------------------------------------------------
(* Filesystem objects.  A file has content c (a byte sequence); a          *)
(* directory has one entry slot e: "empty", a regular "file" of content c, *)
(* a symlink entry whose target is a file of content c ("live"), or a      *)
(* symlink entry whose target is gone ("dead"); a symlink at a source has  *)
(* target e: "store" (its text is the store path) or "ext" (anything       *)
(* else).                                                                  *)

None == [k |-> "none", e |-> "-", c |-> <<>>]
File(c) == [k |-> "file", e |-> "-", c |-> c]
Dir(e, c) == [k |-> "dir", e |-> e, c |-> c]
Link(t) == [k |-> "link", e |-> t, c |-> <<>>]

\* text of a symlink entry inside a directory (os.Lstat reports its length)
LinkText == <<"/", "x">>

SrcLoc(p) == <<"src", p>>
StoreLoc(p) == <<"store", p>>
BackupLoc(addr) == <<"bk", addr>>

BackupAddrs == {getBackupPath(a, DestOf(p)) : a \in {TempApp, AppName}, p \in Paths}
InfoAddrs == {getBackupInfoPath(a, expandPath(SourceOf(p))) : a \in {TempApp, AppName}, p \in Paths}

NoInfo == [AppName |-> "", OriginalPath |-> <<>>, BackupPath |-> <<>>, CreatedAt |-> 0,
           Size |-> 0, Checksum |-> <<>>]

\* os.Lstat: the object at a location, symlinks not followed
Lstat(f, loc) ==
  CASE loc[1] = "src" -> f.src[loc[2]]
    [] loc[1] = "store" -> f.store[loc[2]]
    [] loc[1] = "ext" -> f.ext[loc[2]]
    [] loc[1] = "bk" -> f.bfiles[loc[2]]

\* os.Stat: symlinks followed; a symlink that leads to a symlink (a store
\* path that holds a link to itself) is ELOOP, and nothing is found
Stat(f, loc) ==
  LET n == Lstat(f, loc)
      t == IF n.e = "store" THEN f.store[loc[2]] ELSE f.ext[loc[2]]
  IN IF n.k = "link"
     THEN (IF t.k = "link" THEN None ELSE t)
     ELSE n

\* the location a write through loc lands on (os.Create follows a symlink)
Resolve(f, loc) ==
  LET n == Lstat(f, loc) IN
  IF n.k = "link"
  THEN (IF n.e = "store" THEN <<"store", loc[2]>> ELSE <<"ext", loc[2]>>)
  ELSE loc

Put(f, loc, n) ==
  CASE loc[1] = "src" -> [f EXCEPT !.src[loc[2]] = n]
    [] loc[1] = "store" -> [f EXCEPT !.store[loc[2]] = n]
    [] loc[1] = "ext" -> [f EXCEPT !.ext[loc[2]] = n]
    [] loc[1] = "bk" -> [f EXCEPT !.bfiles[loc[2]] = n]

NoErr == "ok"

\* the value of a one-element set: binds the result of a call once
The(S) == CHOOSE x \in S : TRUE

-----------------------------------------------------------------------------
(* File and tree copies (the two managers carry the same copyFile and      *)
(* copyDir).  Each returns the filesystem it leaves and an error.          *)

\* os.Open(src) follows symlinks; os.Create(dst) writes through a symlink,
\* truncates a file and fails on a directory; reading a directory fails
\* after dst was created empty.
copyFile(f, src, dst) ==
  LET n == Stat(f, src)
      d == Resolve(f, dst)
  IN IF n.k = "none" THEN [f |-> f, err |-> "open"]
     ELSE IF Lstat(f, d).k = "dir" THEN [f |-> f, err |-> "create"]
     ELSE IF n.k = "dir" THEN [f |-> Put(f, d, File(<<>>)), err |-> "read"]
     ELSE [f |-> Put(f, d, File(n.c)), err |-> NoErr]

\* filepath.Walk over src: the root is made with os.MkdirAll, which keeps an
\* existing directory and its entries; an entry that is not a directory
\* (a file, or a symlink, which Walk does not follow) goes through copyFile,
\* which follows it.
copyDir(f, src, dst) ==
  LET n == Lstat(f, src)
      d == Resolve(f, dst)
      made == IF Lstat(f, dst).k = "none" THEN Put(f, dst, Dir("empty", <<>>)) ELSE f
      dn == Lstat(made, d)
  IN IF Lstat(f, dst).k # "none" /\ Stat(f, dst).k # "dir" THEN [f |-> f, err |-> "mkdir"]
     ELSE IF n.e = "empty" THEN [f |-> made, err |-> NoErr]
     ELSE IF n.e = "dead" THEN [f |-> made, err |-> "open"]
     ELSE IF dn.e \in {"live", "dead"}
          THEN [f |-> Put(made, d, Dir("live", n.c)), err |-> NoErr]
          ELSE [f |-> Put(made, d, Dir("file", n.c)), err |-> NoErr]

-----------------------------------------------------------------------------
(* internal/backup/manager.go                                              *)

pathExists(f, loc) == Stat(f, loc).k # "none"

\* an isSymlink that takes nothing for a symlink
isSymlink_Never(f, loc) == FALSE

\* os.Lstat and ModeSymlink
isSymlink(f, loc) == Lstat(f, loc).k = "link"

copyPath(f, src, dst) ==
  IF Stat(f, src).k = "none" THEN [f |-> f, err |-> "stat"]
  ELSE IF Stat(f, src).k = "dir" THEN copyDir(f, src, dst)
  ELSE copyFile(f, src, dst)

\* a digest taken of nothing read: every file gets the digest of no bytes
calculateChecksum_OfNothing(f, loc) ==
  IF Stat(f, loc).k = "file" THEN [sum |-> <<0>>, err |-> NoErr]
  ELSE [sum |-> <<>>, err |-> "checksum"]

\* hex SHA-256 of the bytes read: one digest per content, "" (<<>>) when
\* the path cannot be read as a file
calculateChecksum(f, loc) ==
  LET n == Stat(f, loc) IN
  IF n.k = "file" THEN [sum |-> <<0>> \o n.c, err |-> NoErr]
  ELSE [sum |-> <<>>, err |-> "checksum"]

\* a size that counts the day it was taken on
calculateSize_WithClock(f, loc) ==
  IF Stat(f, loc).k = "none" THEN [size |-> 0, err |-> "stat"]
  ELSE [size |-> f.now, err |-> NoErr]

\* info.Size() of a file; for a directory the sum of the Lstat sizes of the
\* entries that are not directories (a symlink entry counts its text)
calculateSize(f, loc) ==
  LET n == Stat(f, loc) IN
  IF n.k = "none" THEN [size |-> 0, err |-> "stat"]
  ELSE IF n.k = "file" THEN [size |-> Len(n.c), err |-> NoErr]
  ELSE IF n.e = "empty" THEN [size |-> 0, err |-> NoErr]
  ELSE IF n.e = "file" THEN [size |-> Len(n.c), err |-> NoErr]
  ELSE [size |-> Len(LinkText), err |-> NoErr]

saveBackupInfo(f, info) ==
  [f EXCEPT !.binfo[getBackupInfoPath(info.AppName, info.OriginalPath)] = info]

BackupPath(f, appName, p, cp) ==
  IF ~pathExists(f, SrcLoc(p)) THEN [f |-> f, err |-> NoErr]
  ELSE IF isSymlink(f, SrcLoc(p)) THEN [f |-> f, err |-> NoErr]
  ELSE The({
    IF sum.err # NoErr THEN [f |-> f, err |-> "failed to calculate checksum"]
    ELSE The({
      IF size.err # NoErr THEN [f |-> f, err |-> "failed to calculate size"]
      ELSE The({
        IF copied.err # NoErr THEN [f |-> copied.f, err |-> "failed to create backup"]
        ELSE [f |-> saveBackupInfo(copied.f,
                      [AppName |-> appName, OriginalPath |-> expandPath(cp.Source),
                       BackupPath |-> getBackupPath(appName, cp.Destination),
                       CreatedAt |-> f.now,
                       Size |-> size.size, Checksum |-> sum.sum]),
              err |-> NoErr]
        : copied \in {copyPath(f, SrcLoc(p), BackupLoc(getBackupPath(appName, cp.Destination)))} })
      : size \in {calculateSize(f, SrcLoc(p))} })
    : sum \in {IF cp.Type = "file" THEN calculateChecksum(f, SrcLoc(p))
               ELSE [sum |-> <<>>, err |-> NoErr]} })

\* a RestorePath that clears the source before it looks for the snapshot
RestorePath_RemovesFirst(f, appName, p, cp) ==
  IF ~pathExists(f, BackupLoc(getBackupPath(appName, cp.Destination)))
  THEN [f |-> Put(f, SrcLoc(p), None), err |-> "backup does not exist"]
  ELSE The({ The({
         IF c.err # NoErr THEN [f |-> c.f, err |-> "failed to restore from backup"]
         ELSE [f |-> c.f, err |-> NoErr]
       : c \in {copyPath(g, BackupLoc(getBackupPath(appName, cp.Destination)), SrcLoc(p))} })
     : g \in {IF pathExists(f, SrcLoc(p)) THEN Put(f, SrcLoc(p), None) ELSE f} })

\* os.RemoveAll(sourcePath) only when os.Stat finds the source (a dangling
\* symlink stays and copyFile then writes through it)
RestorePath(f, appName, p, cp) ==
  IF ~pathExists(f, BackupLoc(getBackupPath(appName, cp.Destination)))
  THEN [f |-> f, err |-> "backup does not exist"]
  ELSE The({ The({
         IF c.err # NoErr THEN [f |-> c.f, err |-> "failed to restore from backup"]
         ELSE [f |-> c.f, err |-> NoErr]
       : c \in {copyPath(g, BackupLoc(getBackupPath(appName, cp.Destination)), SrcLoc(p))} })
     : g \in {IF pathExists(f, SrcLoc(p)) THEN Put(f, SrcLoc(p), None) ELSE f} })

-----------------------------------------------------------------------------
(* internal/symlink/manager.go.  Each step returns the filesystem it       *)
(* leaves (f), its error (err), the mutations it performed or, in a dry    *)
(* run, announced with "[DRY RUN] Would ..." (ops), and whether            *)
(* path.MarkBackedUp() was called (bu).                                    *)

Step(f, err, ops, bu) == [f |-> f, err |-> err, ops |-> ops, bu |-> bu]

\* os.Readlink text, made absolute and cleaned, equals the cleaned store path
isCorrectSymlink(f, p) == isSymlink(f, SrcLoc(p)) /\ Lstat(f, SrcLoc(p)).e = "store"

\* the directory made without looking at dryRun
ensureStoreDirectory_Always(f, p, cp, dryRun) ==
  Step([f EXCEPT !.dirs = @ \cup MkdirAllSet(DirOf(cp.Destination))], NoErr, <<"mkdir">>, FALSE)

ensureStoreDirectory(f, p, cp, dryRun) ==
  IF ~dryRun
  THEN Step([f EXCEPT !.dirs = @ \cup MkdirAllSet(DirOf(cp.Destination))], NoErr, <<"mkdir">>, FALSE)
  ELSE Step(f, NoErr, <<"mkdir">>, FALSE)

removeExistingSymlink(f, p, dryRun) ==
  IF ~dryRun
  THEN Step(Put(f, SrcLoc(p), None), NoErr, <<"remove">>, FALSE)
  ELSE Step(f, NoErr, <<"remove">>, FALSE)

\* os.MkdirAll(filepath.Dir(storePath)), then os.Rename: what is at the
\* source (a symlink is moved as a symlink) replaces a file or a symlink
\* when it is not a directory, and an empty directory when it is one; every
\* other occupied target fails (EISDIR, ENOTDIR, ENOTEMPTY), and so does
\* a source that is not there (ENOENT)
moveToStore(f, p, cp) ==
  LET g == [f EXCEPT !.dirs = @ \cup MkdirAllSet(DirOf(cp.Destination))]
      s == Lstat(g, SrcLoc(p))
      d == Lstat(g, StoreLoc(p))
      fits == /\ s.k # "none"
              /\ \/ d.k = "none"
                 \/ s.k \in {"file", "link"} /\ d.k \in {"file", "link"}
                 \/ s.k = "dir" /\ d.k = "dir" /\ d.e = "empty"
  IN IF fits
     THEN [f |-> Put(Put(g, StoreLoc(p), s), SrcLoc(p), None), err |-> NoErr]
     ELSE [f |-> g, err |-> "rename"]

moveSourceToStore(f, p, cp, dryRun) ==
  IF dryRun THEN Step(f, NoErr, <<"move">>, FALSE)
  ELSE The({ The({
         IF m.err # NoErr
         THEN Step(m.f, "failed to move to store",
                   IF b.f # f THEN <<"backup">> ELSE <<>>, FALSE)
         ELSE Step(m.f, NoErr,
                   IF b.f # f THEN <<"backup", "move">> ELSE <<"move">>, TRUE)
       : m \in {moveToStore(b.f, p, cp)} })
     : b \in {BackupPath(f, TempApp, p, cp)} })

\* a handleExistingSource that takes an absent source for a failure
handleExistingSource_NeedsSource(f, p, cp, dryRun) ==
  IF ~pathExists(f, SrcLoc(p)) THEN Step(f, "source missing", <<>>, FALSE)
  ELSE IF isSymlink(f, SrcLoc(p)) THEN removeExistingSymlink(f, p, dryRun)
  ELSE moveSourceToStore(f, p, cp, dryRun)

handleExistingSource(f, p, cp, dryRun) ==
  IF ~pathExists(f, SrcLoc(p)) THEN Step(f, NoErr, <<>>, FALSE)
  ELSE IF isSymlink(f, SrcLoc(p)) THEN removeExistingSymlink(f, p, dryRun)
  ELSE moveSourceToStore(f, p, cp, dryRun)

\* Required not looked at
handleMissingPath_Lenient(f, cp) == Step(f, NoErr, <<>>, FALSE)

handleMissingPath(f, cp) ==
  IF cp.Required THEN Step(f, "RequiredPathMissing", <<>>, FALSE)
  ELSE Step(f, NoErr, <<>>, FALSE)

\* os.Symlink(target, source) fails with EEXIST when anything, a dangling
\* symlink included, is at source
createSymlink(f, p) ==
  IF Lstat(f, SrcLoc(p)).k # "none" THEN [f |-> f, err |-> "exists"]
  ELSE [f |-> Put(f, SrcLoc(p), Link("store")), err |-> NoErr]

createFinalSymlink(f, p, dryRun) ==
  IF dryRun THEN Step(f, NoErr, <<"symlink">>, FALSE)
  ELSE The({ IF c.err # NoErr
             THEN Step(c.f, "failed to create symlink", <<>>, FALSE)
             ELSE Step(c.f, NoErr, <<"symlink">>, FALSE)
           : c \in {createSymlink(f, p)} })

syncPath(f, p, cp, dryRun) ==
  IF isCorrectSymlink(f, p) THEN Step(f, NoErr, <<>>, FALSE)
  ELSE The({ The({
         IF h.err # NoErr THEN Step(h.f, h.err, d.ops \o h.ops, h.bu)
         ELSE IF ~pathExists(h.f, SrcLoc(p)) /\ ~pathExists(h.f, StoreLoc(p))
         THEN The({Step(m.f, m.err, d.ops \o h.ops, h.bu) :
                   m \in {handleMissingPath(h.f, cp)}})
         ELSE The({Step(l.f, l.err, d.ops \o h.ops \o l.ops, h.bu) :
                   l \in {createFinalSymlink(h.f, p, dryRun)}})
       : h \in {handleExistingSource(d.f, p, cp, dryRun)} })
     : d \in {ensureStoreDirectory(f, p, cp, dryRun)} })

copyFromStore(f, p) ==
  IF Stat(f, StoreLoc(p)).k = "dir"
  THEN copyDir(f, StoreLoc(p), SrcLoc(p))
  ELSE copyFile(f, StoreLoc(p), SrcLoc(p))

\* any symlink at source taken for the tool's own
unsyncPath_AnySymlink(f, p, cp, dryRun) ==
  IF ~isSymlink(f, SrcLoc(p)) THEN Step(f, NoErr, <<>>, FALSE)
  ELSE IF dryRun
  THEN Step(f, NoErr,
            IF pathExists(f, StoreLoc(p)) THEN <<"remove", "copy">> ELSE <<"remove">>, FALSE)
  ELSE The({ IF ~pathExists(removed, StoreLoc(p))
             THEN Step(removed, NoErr, <<"remove">>, FALSE)
             ELSE The({ IF c.err # NoErr
                        THEN Step(c.f, "failed to copy from store", <<"remove">>, FALSE)
                        ELSE Step(c.f, NoErr, <<"remove", "copy">>, FALSE)
                      : c \in {copyFromStore(removed, p)} })
           : removed \in {Put(f, SrcLoc(p), None)} })

unsyncPath(f, p, cp, dryRun) ==
  IF ~isCorrectSymlink(f, p) THEN Step(f, NoErr, <<>>, FALSE)
  ELSE IF dryRun
  THEN Step(f, NoErr,
            IF pathExists(f, StoreLoc(p)) THEN <<"remove", "copy">> ELSE <<"remove">>, FALSE)
  ELSE The({ IF ~pathExists(removed, StoreLoc(p))
             THEN Step(removed, NoErr, <<"remove">>, FALSE)
             ELSE The({ IF c.err # NoErr
                        THEN Step(c.f, "failed to copy from store", <<"remove">>, FALSE)
                        ELSE Step(c.f, NoErr, <<"remove", "copy">>, FALSE)
                      : c \in {copyFromStore(removed, p)} })
           : removed \in {Put(f, SrcLoc(p), None)} })

-----------------------------------------------------------------------------
(* State.                                                                  *)
(*   app   the AppConfig handed to SyncApp/UnsyncApp (Enabled, Paths with  *)
(*         their Required/BackedUp/Synced fields)                          *)
(*   fs    the filesystem                                                  *)
(*   pc, idx, dryRun, errors   the call in progress: which loop, the index *)
(*         of the next path, the manager's dryRun field, the errors        *)
(*         collected so far (by path index)                                *)
(*   ret   what the last call returned; out: what the last loop body did   *)
(*   hist  per path, for stating the claims: what the last real step on    *)
(*         the path was (last), the source it found if that was a sync of  *)
(*         a regular file or directory (orig), and the source that the     *)
(*         last move into the store took (moved)                           *)

VARIABLES app, fs, pc, idx, dryRun, errors, ret, out, hist

(* State of the bundle operations.                                         *)
(*   archive   the file at bundlePath: whether it exists, and its entries  *)
(*   disk      the import directory, the store and what lies beside them   *)
(*   theBundle the DeploymentBundle last imported, or handed to deploy     *)
(*   registry  cfg.Apps as the config manager has saved it                 *)
(*   dres      what the last import or deploy returned                     *)
VARIABLES archive, disk, theBundle, registry, dres

syncVars == <<app, fs, pc, idx, dryRun, errors, ret, out, hist>>
bundleVars == <<archive, disk, theBundle, registry, dres>>

vars == <<app, fs, pc, idx, dryRun, errors, ret, out, hist,
          archive, disk, theBundle, registry, dres>>

SrcContent(p) == <<p>>
EntryContent(p) == <<p, p>>
StoreContent(p) == <<p, 0>>
StoreEntryContent(p) == <<p, 0, 0>>
ExtContent(p) == <<0, p>>

\* what can be at a source, with what its foreign symlink points to; the
\* first path draws from every kind, the later ones from the kinds that
\* make a path succeed or fail next to it
SrcExt(p) ==
  IF p = 1
  THEN {<<n, None>> : n \in {None, File(SrcContent(p)), Dir("file", EntryContent(p)),
                             Dir("live", EntryContent(p)), Dir("dead", <<>>), Link("store")}}
       \cup {<<Link("ext"), x>> : x \in {None, File(ExtContent(p))}}
  ELSE {<<n, None>> : n \in {None, File(SrcContent(p)), Dir("dead", <<>>), Link("store")}}

StoreChoices(p) ==
  IF p = 1
  THEN {None, File(StoreContent(p)), Dir("empty", <<>>), Dir("file", StoreEntryContent(p))}
  ELSE {None, File(StoreContent(p))}

NoOut == [op |-> "none", p |-> 0, dryRun |-> FALSE, err |-> NoErr, ops |-> <<>>]
NoRet == [op |-> "none", failed |-> <<>>]
NoHist == [last |-> "none", orig |-> None, moved |-> None]

\* config.NewAppConfig and AppConfig.AddPath: flags start false
NewPath(i, ty, rq) ==
  [Source |-> SourceOf(i), Destination |-> DestOf(i), Type |-> ty, Required |-> rq,
   BackedUp |-> FALSE, Synced |-> FALSE]

\* a MarkSynced that leaves the flag alone
MarkSynced_Forgets(cp) == cp

\* ConfigPath.MarkSynced (SyncedAt, a timestamp, is not modelled)
MarkSynced(cp) == [cp EXCEPT !.Synced = TRUE]

\* ConfigPath.MarkBackedUp
MarkBackedUp(cp) == [cp EXCEPT !.BackedUp = TRUE]

SyncInit ==
  /\ \E en \in BOOLEAN, ty \in [Paths -> PathType], rq \in [Paths -> BOOLEAN],
        se \in [Paths -> UNION {SrcExt(p) : p \in Paths}],
        st \in [Paths -> UNION {StoreChoices(p) : p \in Paths}] :
       /\ \A p \in Paths : se[p] \in SrcExt(p) /\ st[p] \in StoreChoices(p)
       /\ app = [Enabled |-> en, Paths |-> [p \in Paths |-> NewPath(p, ty[p], rq[p])]]
       /\ fs = [src |-> [p \in Paths |-> se[p][1]],
                ext |-> [p \in Paths |-> se[p][2]],
                store |-> st,
                dirs |-> UNION {MkdirAllSet(DirOf(DestOf(p))) : p \in {q \in Paths : st[q] # None}},
                bfiles |-> [a \in BackupAddrs |-> None],
                binfo |-> [a \in InfoAddrs |-> NoInfo],
                now |-> 1]
  /\ pc = "idle"
  /\ idx = 1
  /\ dryRun = FALSE
  /\ errors = <<>>
  /\ ret = NoRet
  /\ out = NoOut
  /\ hist = [p \in Paths |-> NoHist]

NoArchive == [exists |-> FALSE, entries |-> <<>>]
RootOnly == [q \in {<<"/">>} |-> [k |-> "dir", body |-> <<>>]]
NoApps == <<>>
NoDres == [op |-> "none", err |-> "ok", app |-> "", path |-> <<>>,
           deployed |-> {}, failed |-> {}, force |-> FALSE]

\* no bundle operation has run and there is nothing to run one on
BundleIdle ==
  /\ archive = NoArchive
  /\ disk = RootOnly
  /\ theBundle = [Version |-> <<>>, CreatedAt |-> 0, Apps |-> NoApps]
  /\ registry = NoApps
  /\ dres = NoDres

Init == SyncInit /\ BundleIdle

\* an aggregate error that names the first failure only
collectErrors_FirstOnly(errs, p, err) ==
  IF err # NoErr /\ errs = <<>> THEN Append(errs, p) ELSE errs

\* the loop's error list: a failed path is appended (by index; its source is
\* app.Paths[p].Source), and the loop continues either way
collectErrors(errs, p, err) ==
  IF err # NoErr THEN Append(errs, p) ELSE errs

IsRegular(n) == n.k \in {"file", "dir"}

\* an IsEnabled that takes every app for enabled
IsEnabled_Always(ac) == TRUE

\* AppConfig.IsEnabled
IsEnabled(ac) == ac.Enabled

\* SyncApp on a disabled app: returns nil at once
SyncAppDisabled ==
  /\ pc = "idle"
  /\ ~IsEnabled(app)
  /\ ret' = [op |-> "sync", failed |-> <<>>]
  /\ UNCHANGED <<app, fs, pc, idx, dryRun, errors, out, hist>>
  /\ UNCHANGED bundleVars

\* SyncApp on an enabled app, up to the loop
SyncAppEnter ==
  /\ pc = "idle"
  /\ IsEnabled(app)
  /\ \E d \in BOOLEAN : dryRun' = d
  /\ pc' = "sync"
  /\ ret' = NoRet
  /\ UNCHANGED <<app, fs, idx, errors, out, hist>>
  /\ UNCHANGED bundleVars

\* one iteration of SyncApp's loop
SyncPath ==
  /\ pc = "sync"
  /\ idx <= Len(app.Paths)
  /\ LET p == idx
         r == syncPath(fs, p, app.Paths[p], dryRun)
     IN /\ fs' = r.f
        /\ app' = [app EXCEPT !.Paths[p] =
                     The({ IF r.err = NoErr /\ ~dryRun THEN MarkSynced(b) ELSE b
                         : b \in {IF r.bu THEN MarkBackedUp(app.Paths[p])
                                           ELSE app.Paths[p]} })]
        /\ errors' = collectErrors(errors, p, r.err)
        /\ out' = [op |-> "sync", p |-> p, dryRun |-> dryRun, err |-> r.err, ops |-> r.ops]
        /\ hist' = IF dryRun THEN hist
                   ELSE [hist EXCEPT ![p] =
                           [last |-> IF r.err = NoErr THEN "syncok" ELSE "syncerr",
                            orig |-> IF IsRegular(fs.src[p]) THEN fs.src[p] ELSE None,
                            moved |-> IF r.bu THEN fs.src[p] ELSE @.moved]]
  /\ idx' = idx + 1
  /\ UNCHANGED <<pc, dryRun, ret>>
  /\ UNCHANGED bundleVars

\* SyncApp after the loop: the aggregate error, or nil
SyncAppReturn ==
  /\ pc = "sync"
  /\ idx > Len(app.Paths)
  /\ ret' = [op |-> "sync", failed |-> errors]
  /\ pc' = "idle"
  /\ idx' = 1
  /\ dryRun' = FALSE
  /\ errors' = <<>>
  /\ out' = NoOut
  /\ UNCHANGED <<app, fs, hist>>
  /\ UNCHANGED bundleVars

UnsyncAppEnter ==
  /\ pc = "idle"
  /\ \E d \in BOOLEAN : dryRun' = d
  /\ pc' = "unsync"
  /\ ret' = NoRet
  /\ UNCHANGED <<app, fs, idx, errors, out, hist>>
  /\ UNCHANGED bundleVars

\* one iteration of UnsyncApp's loop
UnsyncPath ==
  /\ pc = "unsync"
  /\ idx <= Len(app.Paths)
  /\ LET p == idx
         r == unsyncPath(fs, p, app.Paths[p], dryRun)
     IN /\ fs' = r.f
        /\ errors' = collectErrors(errors, p, r.err)
        /\ out' = [op |-> "unsync", p |-> p, dryRun |-> dryRun, err |-> r.err, ops |-> r.ops]
        /\ hist' = IF dryRun THEN hist
                   ELSE [hist EXCEPT ![p] = [last |-> "unsync", orig |-> None, moved |-> @.moved]]
  /\ idx' = idx + 1
  /\ UNCHANGED <<app, pc, dryRun, ret>>
  /\ UNCHANGED bundleVars

UnsyncAppReturn ==
  /\ pc = "unsync"
  /\ idx > Len(app.Paths)
  /\ ret' = [op |-> "unsync", failed |-> errors]
  /\ pc' = "idle"
  /\ idx' = 1
  /\ dryRun' = FALSE
  /\ errors' = <<>>
  /\ out' = NoOut
  /\ UNCHANGED <<app, fs, hist>>
  /\ UNCHANGED bundleVars

Next ==
  \/ SyncAppDisabled
  \/ SyncAppEnter
  \/ SyncPath
  \/ SyncAppReturn
  \/ UnsyncAppEnter
  \/ UnsyncPath
  \/ UnsyncAppReturn

Spec == Init /\ [][Next]_vars


-----------------------------------------------------------------------------
(* The backup and restore commands (runBackup, runRestore), run on the     *)
(* configured app with the global --dry-run flag d.  Each returns nil      *)
(* whatever its paths did; out.err carries the number of paths that        *)
(* failed ("ok" for none).                                                 *)

\* performBackups, the loop over appConfig.Paths from path i on
RECURSIVE performBackups(_, _, _)
performBackups(f, ac, i) ==
  IF i > Len(ac.Paths) THEN [f |-> f, pathErrors |-> 0]
  ELSE The({ The({ [f |-> rest.f,
                    pathErrors |-> rest.pathErrors + (IF b.err # NoErr THEN 1 ELSE 0)]
                 : rest \in {performBackups(b.f, ac, i + 1)} })
           : b \in {BackupPath(f, AppName, i, ac.Paths[i])} })

\* restoreApplication, the loop over appConfig.Paths from path i on
RECURSIVE restoreApplication(_, _, _)
restoreApplication(f, ac, i) ==
  IF i > Len(ac.Paths) THEN [f |-> f, pathErrors |-> 0]
  ELSE The({ The({ [f |-> rest.f,
                    pathErrors |-> rest.pathErrors + (IF r.err # NoErr THEN 1 ELSE 0)]
                 : rest \in {restoreApplication(r.f, ac, i + 1)} })
           : r \in {RestorePath(f, AppName, i, ac.Paths[i])} })

CmdOut(op, d, n) ==
  [op |-> op, p |-> 0, dryRun |-> d, err |-> IF n = 0 THEN NoErr ELSE "failed", ops |-> <<>>]

runBackup ==
  /\ pc = "idle"
  /\ \E d \in BOOLEAN :
       LET r == performBackups(fs, app, 1)
       IN /\ fs' = r.f
          /\ out' = CmdOut("backup", d, r.pathErrors)
  /\ UNCHANGED <<app, pc, idx, dryRun, errors, ret, hist>>
  /\ UNCHANGED bundleVars

runRestore ==
  /\ pc = "idle"
  /\ \E d \in BOOLEAN :
       LET r == restoreApplication(fs, app, 1)
       IN /\ fs' = r.f
          /\ out' = CmdOut("restore", d, r.pathErrors)
  /\ UNCHANGED <<app, pc, idx, dryRun, errors, ret, hist>>
  /\ UNCHANGED bundleVars

CmdNext ==
  \/ runBackup
  \/ runRestore

CmdSpec == Init /\ [][CmdNext]_vars

-----------------------------------------------------------------------------
(* The status command (runStatus): for every tracked path it resolves the  *)
(* source with its own expandPath and reports what getPathStatus finds     *)
(* there.  out.ops holds, per path, the source path it resolved and the    *)
(* status it reported; out.p the number of paths it counted as synced.     *)

\* expandPath(path, _) of the status command: both branches return path
statusExpandPath(path, homeDir) ==
  IF Len(path) >= 2 /\ SubSeq(path, 1, 2) = <<"~", "/">>
  THEN path
  ELSE path

\* getPathStatus(sourcePath, storePath); fs.src[p] is what is at the source
\* path the managers resolve, and nothing is at any other sourcePath
getPathStatus(f, p, sourcePath, cp) ==
  LET atSource == sourcePath = expandPath(cp.Source)
      sourceExists == atSource /\ pathExists(f, SrcLoc(p))
      storeExists == pathExists(f, StoreLoc(p))
  IN IF ~sourceExists /\ ~storeExists THEN "missing"
     ELSE IF ~sourceExists /\ storeExists THEN "not_synced"
     ELSE IF sourceExists /\ ~storeExists THEN "not_synced"
     ELSE IF isSymlink(f, SrcLoc(p))
     THEN (IF Lstat(f, SrcLoc(p)).e = "store" THEN "synced" ELSE "wrong_link")
     ELSE "not_synced"

runStatus ==
  /\ pc = "idle"
  /\ \E rep \in {[p \in Paths |->
                   The({ [source |-> sourcePath,
                          status |-> getPathStatus(fs, p, sourcePath, app.Paths[p])]
                       : sourcePath \in {statusExpandPath(app.Paths[p].Source, HomeDir)} })]} :
       out' = [op |-> "status", p |-> Cardinality({p \in Paths : rep[p].status = "synced"}),
               dryRun |-> FALSE, err |-> NoErr, ops |-> rep]
  /\ UNCHANGED <<app, fs, pc, idx, dryRun, errors, ret, hist>>
  /\ UNCHANGED bundleVars

StatusSpec == Init /\ [][runStatus]_vars

-----------------------------------------------------------------------------
(* The backup store on its own: BackupPath, RestorePath and CleanupBackups *)
(* called for one tracked path or one app at a time, while the user edits  *)
(* the sources and the days pass.  hist[p] keeps the source that the last  *)
(* backup of path p found (last = "backup", orig) for as long as that      *)
(* backup is the last call that wrote to the store: it returned success    *)
(* after writing a snapshot, and no backup that wrote or failed and no     *)
(* cleanup came after it; hist[p].moved is then the source that the backup *)
(* of p before that one found, if it too wrote a snapshot.  out.p of a     *)
(* cleanup is its keepDays, and out.ops the deletions that failed.         *)

MaxTime == 2

KeepDays == {0, 1}

\* what the user can leave at a source, with what its foreign symlink
\* points to: the first path draws from every kind of object, the later
\* ones are there or not
Edits(p) ==
  IF p = 1
  THEN {<<n, None>> : n \in {None, File(SrcContent(p)), Dir("file", EntryContent(p)),
                             Dir("empty", <<>>), Link("store")}}
       \cup {<<Link("ext"), File(ExtContent(p))>>}
  ELSE {<<n, None>> : n \in {None, File(SrcContent(p))}}

\* backup.CreatedAt.Before(cutoff)
Before(t, u) == t < u

\* ListBackups: the records read from the documents below info/appName
ListBackups(f, appName) ==
  {f.binfo[a] : a \in {b \in DOMAIN f.binfo : b[2] = appName /\ f.binfo[b] # NoInfo}}

\* CleanupBackups: for each record older than the cutoff, os.RemoveAll of
\* its snapshot and os.Remove of its document; a deletion that fails
\* (failFiles, failInfo: the addresses where it does) is logged only
CleanupBackups(f, appName, keepDays, failFiles, failInfo) ==
  LET old == {b \in ListBackups(f, appName) : Before(b.CreatedAt, f.now - keepDays)}
  IN [f |-> [f EXCEPT
               !.bfiles = [a \in DOMAIN @ |->
                             IF a \notin failFiles /\ \E b \in old : b.BackupPath = a
                             THEN None ELSE @[a]],
               !.binfo = [a \in DOMAIN @ |->
                            IF a \notin failInfo
                               /\ \E b \in old : getBackupInfoPath(appName, b.OriginalPath) = a
                            THEN NoInfo ELSE @[a]]],
      err |-> NoErr]

\* a validation that looks at the size only
ValidateBackup_SizeOnly(f, backupInfo) ==
  IF ~pathExists(f, BackupLoc(backupInfo.BackupPath)) THEN "backup file missing"
  ELSE IF calculateSize(f, BackupLoc(backupInfo.BackupPath)).size # backupInfo.Size
  THEN "backup size mismatch"
  ELSE NoErr

\* ValidateBackup(backupInfo)
ValidateBackup(f, backupInfo) ==
  IF ~pathExists(f, BackupLoc(backupInfo.BackupPath)) THEN "backup file missing"
  ELSE The({
    IF size.err # NoErr THEN "failed to calculate current size"
    ELSE IF size.size # backupInfo.Size THEN "backup size mismatch"
    ELSE IF backupInfo.Checksum # <<>>
    THEN The({
      IF sum.err # NoErr THEN "failed to calculate current checksum"
      ELSE IF sum.sum # backupInfo.Checksum THEN "backup checksum mismatch"
      ELSE NoErr
    : sum \in {calculateChecksum(f, BackupLoc(backupInfo.BackupPath))} })
    ELSE NoErr
  : size \in {calculateSize(f, BackupLoc(backupInfo.BackupPath))} })

BackupInit ==
  /\ SyncInit
  /\ BundleIdle
  /\ app.Enabled
  /\ \A p \in Paths : ~app.Paths[p].Required /\ fs.store[p] = None
  /\ app.Paths[1].Type = "directory"
  /\ \A p \in Paths \ {1} : app.Paths[p].Type = "file"
  /\ \A p \in Paths : <<fs.src[p], fs.ext[p]>> \in Edits(p)

\* BackupPath(AppName, path p)
BackupOne ==
  /\ pc = "idle"
  /\ \E p \in Paths :
       \E r \in {BackupPath(fs, AppName, p, app.Paths[p])} :
         /\ fs' = r.f
         /\ out' = [op |-> "backup", p |-> p, dryRun |-> FALSE, err |-> r.err, ops |-> <<>>]
         /\ hist' = IF r.err = NoErr /\ IsRegular(fs.src[p])
                    THEN [q \in Paths |-> IF q = p
                                          THEN [last |-> "backup", orig |-> fs.src[p],
                                                moved |-> IF hist[p].last = "backup"
                                                          THEN hist[p].orig ELSE None]
                                          ELSE NoHist]
                    ELSE IF r.err = NoErr THEN hist
                    ELSE [q \in Paths |-> NoHist]
  /\ UNCHANGED <<app, pc, idx, dryRun, errors, ret>>
  /\ UNCHANGED bundleVars

\* RestorePath(AppName, path p)
RestoreOne ==
  /\ pc = "idle"
  /\ \E p \in Paths :
       \E r \in {RestorePath(fs, AppName, p, app.Paths[p])} :
         /\ fs' = r.f
         /\ out' = [op |-> "restore", p |-> p, dryRun |-> FALSE, err |-> r.err, ops |-> <<>>]
  /\ UNCHANGED <<app, pc, idx, dryRun, errors, ret, hist>>
  /\ UNCHANGED bundleVars

\* ValidateBackup on the record of the path that the backup just before
\* was called for
ValidateOne ==
  /\ pc = "idle"
  /\ out.op = "backup"
  /\ out.err = NoErr
  /\ fs.binfo[getBackupInfoPath(AppName, expandPath(app.Paths[out.p].Source))] # NoInfo
  /\ \E r \in {ValidateBackup(fs, fs.binfo[getBackupInfoPath(AppName,
                                                expandPath(app.Paths[out.p].Source))])} :
       out' = [op |-> "validate", p |-> out.p, dryRun |-> FALSE, err |-> r, ops |-> <<>>]
  /\ UNCHANGED <<app, fs, pc, idx, dryRun, errors, ret, hist>>
  /\ UNCHANGED bundleVars

\* the user replaces or deletes what is at the source of path p
EditSource ==
  /\ pc = "idle"
  /\ \E p \in Paths : \E e \in Edits(p) :
       /\ fs' = [fs EXCEPT !.src[p] = e[1], !.ext[p] = e[2]]
       /\ out' = [op |-> "edit", p |-> 0, dryRun |-> FALSE, err |-> NoErr, ops |-> <<>>]
  /\ UNCHANGED <<app, pc, idx, dryRun, errors, ret, hist>>
  /\ UNCHANGED bundleVars

\* a day passes
Tick ==
  /\ pc = "idle"
  /\ fs.now < MaxTime
  /\ fs' = [fs EXCEPT !.now = @ + 1]
  /\ out' = [op |-> "tick", p |-> 0, dryRun |-> FALSE, err |-> NoErr, ops |-> <<>>]
  /\ UNCHANGED <<app, pc, idx, dryRun, errors, ret, hist>>
  /\ UNCHANGED bundleVars

\* CleanupBackups(AppName, keepDays)
Cleanup ==
  /\ pc = "idle"
  /\ \E keepDays \in KeepDays,
        failFiles \in SUBSET {getBackupPath(AppName, DestOf(p)) : p \in Paths},
        failInfo \in {{}, {getBackupInfoPath(AppName, expandPath(SourceOf(p))) : p \in Paths}} :
       \E r \in {CleanupBackups(fs, AppName, keepDays, failFiles, failInfo)} :
         /\ fs' = r.f
         /\ out' = [op |-> "cleanup", p |-> keepDays, dryRun |-> FALSE, err |-> r.err,
                    ops |-> <<failFiles, failInfo>>]
  /\ hist' = [q \in Paths |-> NoHist]
  /\ UNCHANGED <<app, pc, idx, dryRun, errors, ret>>
  /\ UNCHANGED bundleVars

BackupNext ==
  \/ BackupOne
  \/ RestoreOne
  \/ ValidateOne
  \/ EditSource
  \/ Tick
  \/ Cleanup

BackupSpec == BackupInit /\ [][BackupNext]_vars

-----------------------------------------------------------------------------
(* Sync, then the backup store asked about what sync left in it: SyncApp   *)
(* on the app, and RestorePath called for the app and one of its paths.    *)

RecoverInit ==
  /\ Init
  /\ app.Enabled
  /\ \A p \in Paths : ~app.Paths[p].Required

RecoverNext ==
  \/ SyncAppEnter
  \/ SyncPath
  \/ SyncAppReturn
  \/ RestoreOne

RecoverSpec == RecoverInit /\ [][RecoverNext]_vars

-----------------------------------------------------------------------------
(* internal/deploy: bundles.  The import directory, the store and what     *)
(* lies beside them are one disk: a function from cleaned absolute paths   *)
(* to directories and files.  Short names stand for the literal ones:      *)
(* "b" for bundle.yaml, "f" for files.                                     *)

MaxEntries == 3

TargetDir == <<"/", "t">>
StoreDir == <<"/", "s">>
BundleYaml == <<"b">>
FilesName == <<"f">>

DDir == [k |-> "dir", body |-> <<>>]
DFile(b) == [k |-> "file", body |-> b]

HasPrefix(s, prefix) ==
  Len(s) >= Len(prefix) /\ SubSeq(s, 1, Len(prefix)) = prefix

\* the elements of a path between its separators
RECURSIVE Split(_, _, _)
Split(s, i, cur) ==
  IF i > Len(s) THEN <<cur>>
  ELSE IF s[i] = "/" THEN <<cur>> \o Split(s, i + 1, <<>>)
  ELSE Split(s, i + 1, Append(cur, s[i]))

\* filepath.Clean on the elements: "" and "." dropped, ".." takes back the
\* element before it, and is dropped at the root of a rooted path
RECURSIVE CleanElems(_, _, _, _)
CleanElems(elems, i, rooted, acc) ==
  IF i > Len(elems) THEN acc
  ELSE IF elems[i] \in {<<>>, <<".">>} THEN CleanElems(elems, i + 1, rooted, acc)
  ELSE IF elems[i] = <<".", ".">>
       THEN IF acc # <<>> /\ acc[Len(acc)] # <<".", ".">>
            THEN CleanElems(elems, i + 1, rooted, SubSeq(acc, 1, Len(acc) - 1))
            ELSE IF rooted THEN CleanElems(elems, i + 1, rooted, acc)
            ELSE CleanElems(elems, i + 1, rooted, Append(acc, elems[i]))
  ELSE CleanElems(elems, i + 1, rooted, Append(acc, elems[i]))

RECURSIVE JoinElems(_, _)
JoinElems(elems, i) ==
  IF i > Len(elems) THEN <<>>
  ELSE IF i = Len(elems) THEN elems[i]
  ELSE elems[i] \o <<"/">> \o JoinElems(elems, i + 1)

Clean(s) ==
  LET rooted == s # <<>> /\ s[1] = "/"
      elems == CleanElems(Split(s, 1, <<>>), 1, rooted, <<>>)
  IN IF rooted THEN <<"/">> \o JoinElems(elems, 1)
     ELSE IF elems = <<>> THEN <<".">> ELSE JoinElems(elems, 1)

\* filepath.Join: the elements joined by a separator, then cleaned
filepathJoin(a, b) == Clean(a \o <<"/">> \o b)

\* filepath.Dir of a cleaned rooted path
filepathDir(path) ==
  LET k == LastSlash(path, Len(path)) IN IF k <= 1 THEN <<"/">> ELSE SubSeq(path, 1, k - 1)

diskExists(dk, path) == path \in DOMAIN dk

\* os.MkdirAll: fails on a file in the way, else adds the directories missing
diskMkdirAll(dk, path) ==
  LET chain == {path} \cup {SubSeq(path, 1, k - 1) : k \in {j \in 2..Len(path) : path[j] = "/"}}
  IN IF \E a \in chain : a \in DOMAIN dk /\ dk[a].k = "file"
     THEN [dk |-> dk, err |-> "mkdir"]
     ELSE [dk |-> [q \in DOMAIN dk \cup chain |-> IF q \in DOMAIN dk THEN dk[q] ELSE DDir],
           err |-> NoErr]

\* os.OpenFile(O_CREATE|O_TRUNC|O_WRONLY) or os.Create, then the copy
diskWrite(dk, path, body) ==
  IF path \in DOMAIN dk /\ dk[path].k = "dir" THEN [dk |-> dk, err |-> "open"]
  ELSE IF filepathDir(path) \notin DOMAIN dk \/ dk[filepathDir(path)].k # "dir"
  THEN [dk |-> dk, err |-> "open"]
  ELSE [dk |-> [q \in DOMAIN dk \cup {path} |-> IF q = path THEN DFile(body) ELSE dk[q]],
        err |-> NoErr]

\* the guard that takes any path with the target's text in front for inside
extractGuard_NoSeparator(path, targetDir) == HasPrefix(path, Clean(targetDir))

\* strings.HasPrefix(path, filepath.Clean(targetDir)+string(os.PathSeparator))
extractGuard(path, targetDir) == HasPrefix(path, Clean(targetDir) \o <<"/">>)

\* extractTarGz from entry i on: entries are taken in archive order, and an
\* entry that is neither a directory nor a regular file is passed over
RECURSIVE extractTarGz(_, _, _, _)
extractTarGz(dk, entries, i, targetDir) ==
  IF i > Len(entries) THEN [dk |-> dk, err |-> NoErr]
  ELSE The({
    IF ~extractGuard(path, targetDir) THEN [dk |-> dk, err |-> "invalid path in archive"]
    ELSE IF entries[i].Typeflag = "dir"
    THEN The({ IF m.err # NoErr THEN [dk |-> m.dk, err |-> m.err]
               ELSE extractTarGz(m.dk, entries, i + 1, targetDir)
             : m \in {diskMkdirAll(dk, path)} })
    ELSE IF entries[i].Typeflag = "reg"
    THEN The({ IF m.err # NoErr THEN [dk |-> m.dk, err |-> m.err]
               ELSE The({ IF w.err # NoErr THEN [dk |-> w.dk, err |-> w.err]
                          ELSE extractTarGz(w.dk, entries, i + 1, targetDir)
                        : w \in {diskWrite(m.dk, path, entries[i].Body)} })
             : m \in {diskMkdirAll(dk, filepathDir(path))} })
    ELSE extractTarGz(dk, entries, i + 1, targetDir)
  : path \in {filepathJoin(targetDir, entries[i].Name)} })

NoBundle == [Version |-> <<>>, CreatedAt |-> 0, Apps |-> <<>>]

\* A YAML document is a sequence of pairs of a key (the field's yaml tag) and
\* a value; a field tagged omitempty is left out when it is zero, and a key
\* that is not in the document leaves the field zero.
yamlGet(doc, key, zero) ==
  IF \E i \in DOMAIN doc : doc[i][1] = key
  THEN doc[CHOOSE i \in DOMAIN doc : doc[i][1] = key][2]
  ELSE zero

marshalPath(cp) == <<<<"destination", cp.Destination>>, <<"required", cp.Required>>>>

unmarshalPath(doc) ==
  [Destination |-> yamlGet(doc, "destination", <<>>), Required |-> yamlGet(doc, "required", FALSE)]

marshalApp(ac) ==
  <<<<"paths", [i \in DOMAIN ac.Paths |-> marshalPath(ac.Paths[i])]>>>>
  \o (IF ac.LastSynced = 0 THEN <<>> ELSE <<<<"last_synced", ac.LastSynced>>>>)

unmarshalApp(doc) ==
  The({ [Paths |-> [i \in DOMAIN ps |-> unmarshalPath(ps[i])],
         LastSynced |-> yamlGet(doc, "last_synced", 0)]
      : ps \in {yamlGet(doc, "paths", <<>>)} })

\* yaml.Marshal(bundle)
yamlMarshal(bundle) ==
  <<<<"version", bundle.Version>>,
    <<"created_at", bundle.CreatedAt>>,
    <<"apps", [a \in DOMAIN bundle.Apps |-> marshalApp(bundle.Apps[a])]>>>>

\* yaml.Unmarshal(data, &bundle)
yamlUnmarshal(doc) ==
  The({ [Version |-> yamlGet(doc, "version", <<>>),
         CreatedAt |-> yamlGet(doc, "created_at", 0),
         Apps |-> [a \in DOMAIN as |-> unmarshalApp(as[a])]]
      : as \in {yamlGet(doc, "apps", <<>>)} })

\* os.ReadFile and yaml.Unmarshal of the manifest
loadBundleMetadata(dk, path) ==
  IF path \notin DOMAIN dk \/ dk[path].k # "file" THEN [bundle |-> NoBundle, err |-> "read"]
  ELSE [bundle |-> yamlUnmarshal(dk[path].body), err |-> NoErr]

\* the required paths of an app, from path i on, whose staged file is missing
RECURSIVE missingRequired(_, _, _, _)
missingRequired(dk, paths, appFilesDir, i) ==
  IF i > Len(paths) THEN <<>>
  ELSE IF paths[i].Required /\ ~diskExists(dk, filepathJoin(appFilesDir, paths[i].Destination))
  THEN <<paths[i].Destination>>
  ELSE missingRequired(dk, paths, appFilesDir, i + 1)

\* validateBundle's loop, over the apps in the order the map iteration
\* yields them (order: all app names, in that order)
RECURSIVE validateApps(_, _, _, _, _)
validateApps(dk, bundle, filesDir, order, i) ==
  IF i > Len(order) THEN [err |-> NoErr, app |-> "", path |-> <<>>]
  ELSE The({
    IF miss # <<>> THEN [err |-> "required file missing", app |-> order[i], path |-> miss[1]]
    ELSE validateApps(dk, bundle, filesDir, order, i + 1)
  : miss \in {missingRequired(dk, bundle.Apps[order[i]].Paths,
                              filepathJoin(filesDir, <<order[i]>>), 1)} })

validateBundle(dk, bundle, bundleDir, order) ==
  IF bundle.Version = <<>> THEN [err |-> "missing bundle version", app |-> "", path |-> <<>>]
  ELSE IF ~diskExists(dk, filepathJoin(bundleDir, FilesName))
  THEN [err |-> "bundle files directory missing", app |-> "", path |-> <<>>]
  ELSE validateApps(dk, bundle, filepathJoin(bundleDir, FilesName),
                    SelectSeq(order, LAMBDA a : a \in DOMAIN bundle.Apps), 1)

ImportResult(dk, err, appName, path, bundle) ==
  [dk |-> dk, err |-> err, app |-> appName, path |-> path, bundle |-> bundle]

\* ImportBundle(bundlePath, targetDir); arc.exists: is there a file at
\* bundlePath
ImportBundle(dk, arc, targetDir, order) ==
  IF ~arc.exists THEN ImportResult(dk, "bundle file not found", "", <<>>, NoBundle)
  ELSE The({
    IF made.err # NoErr
    THEN ImportResult(made.dk, "failed to create target directory", "", <<>>, NoBundle)
    ELSE The({
      IF x.err # NoErr THEN ImportResult(x.dk, x.err, "", <<>>, NoBundle)
      ELSE The({
        IF l.err # NoErr
        THEN ImportResult(x.dk, "failed to load bundle metadata", "", <<>>, NoBundle)
        ELSE The({
          IF v.err # NoErr THEN ImportResult(x.dk, v.err, v.app, v.path, NoBundle)
          ELSE ImportResult(x.dk, NoErr, "", <<>>, l.bundle)
        : v \in {validateBundle(x.dk, l.bundle, targetDir, order)} })
      : l \in {loadBundleMetadata(x.dk, filepathJoin(targetDir, BundleYaml))} })
    : x \in {extractTarGz(made.dk, arc.entries, 1, targetDir)} })
  : made \in {diskMkdirAll(dk, targetDir)} })

AppNames == {"x", "y"}

\* the orders in which a map over the app names can be iterated
AppOrders == {<<"x", "y">>, <<"y", "x">>}

BundleApp(paths) == [Paths |-> paths, LastSynced |-> 0]
BundlePath(dest, rq) == [Destination |-> dest, Required |-> rq]

\* nothing tracked, nothing on the filesystem, no call in progress
SyncIdle ==
  /\ SyncInit
  /\ ~app.Enabled
  /\ \A p \in Paths : /\ app.Paths[p].Type = "file" /\ ~app.Paths[p].Required
                      /\ fs.src[p] = None /\ fs.store[p] = None

\* manifests of one app "x" with one path "a", with and without a version
Manifests ==
  {[Version |-> v, CreatedAt |-> 1,
    Apps |-> [a \in {"x"} |-> BundleApp(<<BundlePath(<<"a">>, rq)>>)]]
   : v \in {<<>>, <<"1">>}, rq \in BOOLEAN}

Entry(name, typeflag, body) == [Name |-> name, Typeflag |-> typeflag, Body |-> body]

\* the entries an archive is made of: the manifest, the files directory, a
\* staged file (also as a symlink entry), and three names that leave the
\* target: ../e, ../tt (beside the target, with its text in front) and
\* f/../../e
ArchiveEntries(m) ==
  {Entry(BundleYaml, "reg", yamlMarshal(m)),
   Entry(FilesName, "dir", <<>>),
   Entry(<<"f", "/", "x", "/", "a">>, "reg", <<1>>),
   Entry(<<"f", "/", "x", "/", "a">>, "symlink", <<>>),
   Entry(<<".", ".", "/", "e">>, "reg", <<2>>),
   Entry(<<".", ".", "/", "t", "t">>, "dir", <<>>),
   Entry(<<"f", "/", ".", ".", "/", ".", ".", "/", "e">>, "reg", <<3>>)}

ImportInit ==
  /\ SyncIdle
  /\ \/ archive = NoArchive
     \/ \E m \in Manifests, n \in 0..MaxEntries :
          \E es \in [1..n -> ArchiveEntries(m)] :
            archive = [exists |-> TRUE, entries |-> es]
  /\ disk = RootOnly
  /\ theBundle = [Version |-> <<>>, CreatedAt |-> 0, Apps |-> NoApps]
  /\ registry = NoApps
  /\ dres = NoDres

\* ImportBundle(bundlePath, TargetDir)
Import ==
  /\ \E order \in AppOrders :
       LET r == ImportBundle(disk, archive, TargetDir, order)
       IN /\ disk' = r.dk
          /\ theBundle' = r.bundle
          /\ dres' = [op |-> "import", err |-> r.err, app |-> r.app, path |-> r.path,
                      deployed |-> {}, failed |-> {}, force |-> FALSE]
  /\ UNCHANGED <<archive, registry>>
  /\ UNCHANGED syncVars

ImportNext == Import

ImportSpec == ImportInit /\ [][ImportNext]_vars

-----------------------------------------------------------------------------
(* internal/deploy: DeployBundle.                                          *)

\* is the cleaned rooted path q below dir, element by element
Below(q, dir) ==
  LET qe == Split(q, 1, <<>>)
      de == Split(dir, 1, <<>>)
  IN Len(qe) > Len(de) /\ SubSeq(qe, 1, Len(de)) = de

\* os.Open(src), os.Create(dst), io.Copy
diskCopyFile(dk, src, dst) ==
  IF src \notin DOMAIN dk THEN [dk |-> dk, err |-> "open"]
  ELSE IF dk[src].k = "dir"
  THEN The({ IF w.err # NoErr THEN w ELSE [dk |-> w.dk, err |-> "read"]
           : w \in {diskWrite(dk, dst, <<>>)} })
  ELSE diskWrite(dk, dst, dk[src].body)

\* filepath.Walk over src: os.MkdirAll for the root, which fails on a file
\* at dst, then every directory and file below src at the same place below
\* dst (nothing is in their way below a root this copy made or found empty)
diskCopyDir(dk, src, dst) ==
  The({
    IF m.err # NoErr THEN m
    ELSE [dk |-> [q \in DOMAIN m.dk \cup {dst \o SubSeq(x, Len(src) + 1, Len(x)) :
                                           x \in {y \in DOMAIN dk : Below(y, src)}}
                  |-> IF \E x \in DOMAIN dk :
                           Below(x, src) /\ q = dst \o SubSeq(x, Len(src) + 1, Len(x))
                      THEN dk[CHOOSE x \in DOMAIN dk :
                                Below(x, src) /\ q = dst \o SubSeq(x, Len(src) + 1, Len(x))]
                      ELSE m.dk[q]],
          err |-> NoErr]
  : m \in {diskMkdirAll(dk, dst)} })

diskCopyPath(dk, src, dst) ==
  IF src \notin DOMAIN dk THEN [dk |-> dk, err |-> "stat"]
  ELSE IF dk[src].k = "dir" THEN diskCopyDir(dk, src, dst)
  ELSE diskCopyFile(dk, src, dst)

\* a comparison that also takes the same instant for later
After_OrEqual(t, u) == t >= u

\* currentApp.LastSynced.After(bundle.CreatedAt)
After(t, u) == t > u

\* a conflict is an app name with what was found: "newer" or "paths"
detectConflicts(bundle, currentApps) ==
  {<<a, "newer">> : a \in {b \in DOMAIN bundle.Apps \cap DOMAIN currentApps :
                            After(currentApps[b].LastSynced, bundle.CreatedAt)}}
  \cup
  {<<a, "paths">> : a \in {b \in DOMAIN bundle.Apps \cap DOMAIN currentApps :
                            Len(currentApps[b].Paths) # Len(bundle.Apps[b].Paths)}}

\* a rule that fails the app on any missing staged file
missingStagedError_Always(cp) == "required file missing from bundle"

\* what deployAppFiles makes of a staged file that is missing: an error for
\* a required path, nothing for another
missingStagedError(cp) ==
  IF cp.Required THEN "required file missing from bundle" ELSE NoErr

\* deployAppFiles from path i on
RECURSIVE deployAppFiles(_, _, _, _, _)
deployAppFiles(dk, appConfig, bundleFilesDir, storeDir, i) ==
  IF i > Len(appConfig.Paths) THEN [dk |-> dk, err |-> NoErr]
  ELSE The({
    IF ~diskExists(dk, bundlePath)
    THEN IF missingStagedError(appConfig.Paths[i]) # NoErr
         THEN [dk |-> dk, err |-> missingStagedError(appConfig.Paths[i])]
         ELSE deployAppFiles(dk, appConfig, bundleFilesDir, storeDir, i + 1)
    ELSE The({
      The({
        IF m.err # NoErr THEN [dk |-> m.dk, err |-> "failed to create store directory"]
        ELSE The({
          IF c.err # NoErr THEN [dk |-> c.dk, err |-> "failed to copy to store"]
          ELSE deployAppFiles(c.dk, appConfig, bundleFilesDir, storeDir, i + 1)
        : c \in {diskCopyPath(m.dk, bundlePath, storePath)} })
      : m \in {diskMkdirAll(dk, filepathDir(storePath))} })
    : storePath \in {filepathJoin(storeDir, appConfig.Paths[i].Destination)} })
  : bundlePath \in {filepathJoin(bundleFilesDir, appConfig.Paths[i].Destination)} })

\* config.Manager.AddApp: the app is put into the loaded configuration (mem),
\* which Save then writes out as a whole (reg), or fails to
AddApp(st, appName, appConfig, saveFails) ==
  The({ [st EXCEPT !.mem = mem,
                   !.reg = IF appName \in saveFails THEN @ ELSE mem,
                   !.deployed = IF appName \in saveFails THEN @ ELSE @ \cup {appName},
                   !.failed = IF appName \in saveFails THEN @ \cup {appName} ELSE @]
      : mem \in {[a \in DOMAIN st.mem \cup {appName} |->
                    IF a = appName THEN appConfig ELSE st.mem[a]]} })

\* the loop of DeployBundle over bundle.Apps, from the i-th app of the
\* iteration order on
RECURSIVE deployApps(_, _, _, _, _, _, _)
deployApps(st, bundle, bundleDir, storeDir, order, saveFails, i) ==
  IF i > Len(order) THEN st
  ELSE The({
    IF diskExists(st.dk, bundleAppDir)
    THEN The({
      IF d.err # NoErr
      THEN deployApps([st EXCEPT !.dk = d.dk, !.failed = @ \cup {order[i]}],
                      bundle, bundleDir, storeDir, order, saveFails, i + 1)
      ELSE deployApps(AddApp([st EXCEPT !.dk = d.dk], order[i], bundle.Apps[order[i]], saveFails),
                      bundle, bundleDir, storeDir, order, saveFails, i + 1)
    : d \in {deployAppFiles(st.dk, bundle.Apps[order[i]], bundleAppDir, storeDir, 1)} })
    ELSE deployApps(AddApp(st, order[i], bundle.Apps[order[i]], saveFails),
                    bundle, bundleDir, storeDir, order, saveFails, i + 1)
  : bundleAppDir \in {filepathJoin(filepathJoin(bundleDir, FilesName), <<order[i]>>)} })

DeployState(dk, reg) == [dk |-> dk, mem |-> reg, reg |-> reg, deployed |-> {}, failed |-> {}]

\* an error rule that fails the deploy on any failed app
deployError_AnyFailure(st) ==
  IF st.failed # {} THEN "failed to deploy any applications" ELSE NoErr

\* what DeployBundle returns after its loop
deployError(st) ==
  IF st.failed # {} /\ st.deployed = {} THEN "failed to deploy any applications" ELSE NoErr

\* a DeployBundle that goes on whatever the conflicts
DeployBundle_IgnoresConflicts(dk, reg, bundle, bundleDir, storeDir, force, order, saveFails) ==
  The({ [st |-> st, err |-> deployError(st)]
  : st \in {deployApps(DeployState(dk, reg), bundle, bundleDir, storeDir,
                       SelectSeq(order, LAMBDA a : a \in DOMAIN bundle.Apps), saveFails, 1)} })

\* DeployBundle(bundle, bundleDir, configManager, force)
DeployBundle(dk, reg, bundle, bundleDir, storeDir, force, order, saveFails) ==
  IF ~force /\ detectConflicts(bundle, reg) # {}
  THEN [st |-> DeployState(dk, reg), err |-> "use --force to override conflicts"]
  ELSE The({ [st |-> st, err |-> deployError(st)]
  : st \in {deployApps(DeployState(dk, reg), bundle, bundleDir, storeDir,
                       SelectSeq(order, LAMBDA a : a \in DOMAIN bundle.Apps), saveFails, 1)} })

\* the disk that holds the nodes of S (pairs of a path and a node)
MkDisk(S) == [q \in {e[1] : e \in S} |-> (CHOOSE e \in S : e[1] = q)[2]]

\* the paths an app of the bundle or of the registry can have
PathLists(a) ==
  IF a = "x"
  THEN {<<BundlePath(<<"a">>, r1)>> : r1 \in BOOLEAN}
       \cup {<<BundlePath(<<"a">>, r1), BundlePath(<<"b">>, r2)>> : r1, r2 \in BOOLEAN}
  ELSE {<<BundlePath(<<"c">>, r1)>> : r1 \in BOOLEAN}

\* the bundles: any of the apps, created at time 1
Bundles ==
  UNION {{[Version |-> <<"1">>, CreatedAt |-> 1, Apps |-> f] :
            f \in {g \in [A -> UNION {{BundleApp(pl) : pl \in PathLists(a)} : a \in A}] :
                    \A a \in A : g[a].Paths \in PathLists(a)}}
         : A \in SUBSET AppNames}

\* the registries: any of the apps, last synced at time 1 or 2, with the
\* bundle's path count or another
Registries ==
  UNION {{f \in [A -> UNION {{[Paths |-> pl, LastSynced |-> t] :
                                pl \in PathLists("x") \cup PathLists("y"), t \in {1, 2}}}] :
            \A a \in A : \A i \in DOMAIN f[a].Paths : ~f[a].Paths[i].Required
                         /\ f[a].Paths[1].Destination = (IF a = "x" THEN <<"a">> ELSE <<"c">>)}
         : A \in SUBSET AppNames}

AppFilesDir(a) == filepathJoin(filepathJoin(TargetDir, FilesName), <<a>>)

\* what can be staged for an app: nothing, or its files directory with any
\* of its paths below it as a file
AppStagings(a, ac) ==
  {{}} \cup
  {{<<AppFilesDir(a), DDir>>} \cup {<<filepathJoin(AppFilesDir(a), d), DFile(d)>> : d \in D}
     : D \in SUBSET {ac.Paths[i].Destination : i \in DOMAIN ac.Paths}}

\* what can be staged for a bundle
Stagings(b) ==
  {UNION {t[a] : a \in DOMAIN b.Apps} :
     t \in {u \in [DOMAIN b.Apps -> UNION {AppStagings(a, b.Apps[a]) : a \in DOMAIN b.Apps}] :
              \A a \in DOMAIN b.Apps : u[a] \in AppStagings(a, b.Apps[a])}}

DeployInit ==
  /\ SyncIdle
  /\ archive = NoArchive
  /\ theBundle \in Bundles
  /\ \E sg \in Stagings(theBundle), old \in SUBSET {<<filepathJoin(StoreDir, <<"a">>), DFile(<<9>>)>>} :
       disk = MkDisk({<<<<"/">>, DDir>>, <<TargetDir, DDir>>, <<StoreDir, DDir>>,
                      <<filepathJoin(TargetDir, FilesName), DDir>>} \cup sg \cup old)
  /\ registry \in Registries
  /\ dres = NoDres

\* DeployBundle(theBundle, TargetDir, configManager, force); a behaviour is
\* one run of the command
Deploy ==
  /\ dres = NoDres
  /\ \E force \in BOOLEAN, order \in AppOrders, saveFails \in SUBSET AppNames :
       \E r \in {DeployBundle(disk, registry, theBundle, TargetDir, StoreDir, force, order, saveFails)} :
          /\ disk' = r.st.dk
          /\ registry' = r.st.reg
          /\ dres' = [op |-> "deploy", err |-> r.err, app |-> "", path |-> <<>>,
                      deployed |-> r.st.deployed, failed |-> r.st.failed, force |-> force]
  /\ UNCHANGED <<archive, theBundle>>
  /\ UNCHANGED syncVars

DeployNext == Deploy

DeploySpec == DeployInit /\ [][DeployNext]_vars

-----------------------------------------------------------------------------
(* Export, import and deploy in a row on one machine: ExportBundle writes  *)
(* the archive from the registry and the store, the import command clears  *)
(* the import directory and calls ImportBundle, and the bundle it returns  *)
(* is deployed, by DeployBundle or by the deploy command.  dres.path of an *)
(* export is the list of app names it was given.  Writes to the registry   *)
(* file succeed here.                                                      *)

\* the directory os.MkdirTemp makes
TempDir == <<"/", "m">>

\* the characters of the names in an archive, in their byte order
Alphabet == <<"/", "a", "b", "c", "f", "k", "x", "y">>

CharRank(c) == CHOOSE i \in DOMAIN Alphabet : Alphabet[i] = c

\* s before t in byte order
RECURSIVE LexLess(_, _, _)
LexLess(s, t, i) ==
  IF i > Len(s) THEN i <= Len(t)
  ELSE IF i > Len(t) THEN FALSE
  ELSE IF s[i] = t[i] THEN LexLess(s, t, i + 1)
  ELSE CharRank(s[i]) < CharRank(t[i])

\* filepath.Walk visits a directory, then its entries by name: the paths in
\* byte order, the separator being the least of the characters in them
RECURSIVE WalkOrder(_)
WalkOrder(S) ==
  IF S = {} THEN <<>>
  ELSE The({ <<first>> \o WalkOrder(S \ {first})
           : first \in {CHOOSE x \in S : \A y \in S \ {x} : LexLess(x, y, 1)} })

\* createTarGz(sourceDir, targetPath): one entry for everything below
\* sourceDir, named by its path relative to it
createTarGz(dk, sourceDir) ==
  The({ [i \in DOMAIN walk |->
           Entry(SubSeq(walk[i], Len(sourceDir) + 2, Len(walk[i])),
                 IF dk[walk[i]].k = "dir" THEN "dir" ELSE "reg",
                 dk[walk[i]].body)]
      : walk \in {WalkOrder({q \in DOMAIN dk : Below(q, sourceDir)})} })

\* a selection that passes over the names the registry does not have
selectApps_SkipsUnknown(reg, apps) ==
  [apps |-> [a \in {apps[i] : i \in DOMAIN apps} \cap DOMAIN reg |-> reg[a]],
   err |-> NoErr, app |-> ""]

\* the apps ExportBundle includes: all of them for no names, else the named
\* ones, or the error for the first name the registry does not have
selectApps(reg, apps) ==
  IF apps = <<>> THEN [apps |-> reg, err |-> NoErr, app |-> ""]
  ELSE IF \E i \in DOMAIN apps : apps[i] \notin DOMAIN reg
  THEN [apps |-> NoApps, err |-> "application not found",
        app |-> apps[CHOOSE i \in DOMAIN apps :
                       /\ apps[i] \notin DOMAIN reg
                       /\ \A j \in 1..(i - 1) : apps[j] \in DOMAIN reg]]
  ELSE [apps |-> [a \in {apps[i] : i \in DOMAIN apps} |-> reg[a]], err |-> NoErr, app |-> ""]

\* the loop of ExportBundle over appConfig.Paths, from path i on: a path
\* without a store file is passed over
RECURSIVE exportPaths(_, _, _, _, _)
exportPaths(dk, appConfig, appFilesDir, storeDir, i) ==
  IF i > Len(appConfig.Paths) THEN [dk |-> dk, err |-> NoErr]
  ELSE The({
    IF ~diskExists(dk, storePath)
    THEN exportPaths(dk, appConfig, appFilesDir, storeDir, i + 1)
    ELSE The({
      The({
        IF m.err # NoErr THEN [dk |-> m.dk, err |-> "failed to create bundle path directory"]
        ELSE The({
          IF c.err # NoErr THEN [dk |-> c.dk, err |-> "failed to copy"]
          ELSE exportPaths(c.dk, appConfig, appFilesDir, storeDir, i + 1)
        : c \in {diskCopyPath(m.dk, storePath, destPath)} })
      : m \in {diskMkdirAll(dk, filepathDir(destPath))} })
    : destPath \in {filepathJoin(appFilesDir, appConfig.Paths[i].Destination)} })
  : storePath \in {filepathJoin(storeDir, appConfig.Paths[i].Destination)} })

\* the loop of ExportBundle over bundle.Apps, from the i-th app of the
\* iteration order on
RECURSIVE exportApps(_, _, _, _, _, _)
exportApps(dk, apps, filesDir, storeDir, order, i) ==
  IF i > Len(order) THEN [dk |-> dk, err |-> NoErr]
  ELSE The({
    IF m.err # NoErr THEN [dk |-> m.dk, err |-> "failed to create app files directory"]
    ELSE The({
      IF e.err # NoErr THEN e
      ELSE exportApps(e.dk, apps, filesDir, storeDir, order, i + 1)
    : e \in {exportPaths(m.dk, apps[order[i]], filepathJoin(filesDir, <<order[i]>>), storeDir, 1)} })
  : m \in {diskMkdirAll(dk, filepathJoin(filesDir, <<order[i]>>))} })

ExportResult(arc, err, appName) == [arc |-> arc, err |-> err, app |-> appName]

\* ExportBundle(bundlePath, apps, configManager) at time now; arc is what is
\* at bundlePath.  The temporary directory is removed on return, so the disk
\* is as it was.
ExportBundle(dk, reg, arc, apps, storeDir, now, order) ==
  The({
    IF sel.err # NoErr THEN ExportResult(arc, sel.err, sel.app)
    ELSE IF DOMAIN sel.apps = {} THEN ExportResult(arc, "no applications to export", "")
    ELSE The({ The({ The({ The({
           IF staged.err # NoErr THEN ExportResult(arc, staged.err, "")
           ELSE ExportResult([exists |-> TRUE, entries |-> createTarGz(staged.dk, TempDir)],
                             NoErr, "")
         : staged \in {exportApps(files.dk, sel.apps, filepathJoin(TempDir, FilesName), storeDir,
                                  SelectSeq(order, LAMBDA a : a \in DOMAIN sel.apps), 1)} })
         : files \in {diskMkdirAll(meta.dk, filepathJoin(TempDir, FilesName))} })
         : meta \in {diskWrite(temp.dk, filepathJoin(TempDir, BundleYaml),
                               yamlMarshal([Version |-> <<"1">>, CreatedAt |-> now,
                                            Apps |-> sel.apps]))} })
         : temp \in {diskMkdirAll(dk, TempDir)} })
  : sel \in {selectApps(reg, apps)} })

\* os.RemoveAll(path)
diskRemoveAll(dk, path) ==
  [q \in {x \in DOMAIN dk : x # path /\ ~Below(x, path)} |-> dk[q]]

\* the lists of names an export is given: none, names the registry may
\* have, and a name it never has
Selections ==
  {<<>>, <<"x">>, <<"y">>, <<"z">>, <<"x", "y">>, <<"x", "z">>, <<"z", "x">>}

\* the registries to export from: any of the apps, never synced
SourceRegistries ==
  UNION {{f \in [A -> UNION {{BundleApp(pl) : pl \in PathLists(a)} : a \in A}] :
            \A a \in A : f[a].Paths \in PathLists(a)}
         : A \in SUBSET AppNames}

\* what the store can hold: a as a file or as a directory of one file, b and
\* c as files
StoreStates ==
  {sa \cup sb \cup sc :
     sa \in {{}, {<<filepathJoin(StoreDir, <<"a">>), DFile(<<"a">>)>>},
             {<<filepathJoin(StoreDir, <<"a">>), DDir>>,
              <<filepathJoin(StoreDir, <<"a", "/", "k">>), DFile(<<"k">>)>>}},
     sb \in SUBSET {<<filepathJoin(StoreDir, <<"b">>), DFile(<<"b">>)>>},
     sc \in SUBSET {<<filepathJoin(StoreDir, <<"c">>), DFile(<<"c">>)>>}}

BundleInit ==
  /\ SyncIdle
  /\ archive \in {NoArchive, [exists |-> TRUE, entries |-> <<>>]}
  /\ theBundle = NoBundle
  /\ \E st \in StoreStates :
       disk = MkDisk({<<<<"/">>, DDir>>, <<StoreDir, DDir>>} \cup st)
  /\ registry \in SourceRegistries
  /\ dres = NoDres

\* ExportBundle(bundlePath, apps, configManager)
Export ==
  /\ dres.op = "none"
  /\ \E apps \in Selections, order \in AppOrders :
       \E r \in {ExportBundle(disk, registry, archive, apps, StoreDir, 1, order)} :
         /\ archive' = r.arc
         /\ dres' = [op |-> "export", err |-> r.err, app |-> r.app, path |-> apps,
                     deployed |-> {}, failed |-> {}, force |-> FALSE]
  /\ UNCHANGED <<disk, theBundle, registry>>
  /\ UNCHANGED syncVars

\* the import command: the import directory is removed, then
\* ImportBundle(bundlePath, importDir)
runImport ==
  /\ dres.op = "export"
  /\ \E order \in AppOrders :
       \E r \in {ImportBundle(diskRemoveAll(disk, TargetDir), archive, TargetDir, order)} :
         /\ disk' = r.dk
         /\ theBundle' = r.bundle
         /\ dres' = [op |-> "import", err |-> r.err, app |-> r.app, path |-> r.path,
                     deployed |-> {}, failed |-> {}, force |-> FALSE]
  /\ UNCHANGED <<archive, registry>>
  /\ UNCHANGED syncVars

\* DeployBundle(bundle, importDir, configManager, force) on the bundle that
\* ImportBundle returned
DeployImported ==
  /\ dres.op = "import"
  /\ dres.err = NoErr
  /\ \E force \in BOOLEAN, order \in AppOrders :
       \E r \in {DeployBundle(disk, registry, theBundle, TargetDir, StoreDir, force, order, {})} :
          /\ disk' = r.st.dk
          /\ registry' = r.st.reg
          /\ dres' = [op |-> "deploy", err |-> r.err, app |-> "", path |-> <<>>,
                      deployed |-> r.st.deployed, failed |-> r.st.failed, force |-> force]
  /\ UNCHANGED <<archive, theBundle>>
  /\ UNCHANGED syncVars

\* what os.Stat finds at the empty path: nothing
AtEmptyPath == NoArchive

DeployCmdResult(dk, reg, bundle, err, deployed, failed) ==
  [dk |-> dk, reg |-> reg, bundle |-> bundle, err |-> err, deployed |-> deployed, failed |-> failed]

\* the deploy command: the import directory and its manifest must be there,
\* the bundle is loaded with ImportBundle("", importDir) and handed to
\* DeployBundle
runDeployCmd(dk, reg, bundle, importDir, storeDir, force, order) ==
  IF ~diskExists(dk, importDir)
  THEN DeployCmdResult(dk, reg, bundle, "no imported bundle found", {}, {})
  ELSE IF ~diskExists(dk, filepathJoin(importDir, BundleYaml))
  THEN DeployCmdResult(dk, reg, bundle, "invalid import directory", {}, {})
  ELSE The({
    IF l.err # NoErr
    THEN DeployCmdResult(l.dk, reg, bundle, "failed to load imported bundle", {}, {})
    ELSE The({
      DeployCmdResult(d.st.dk, d.st.reg, l.bundle,
                      IF d.err # NoErr THEN "deployment failed" ELSE NoErr,
                      d.st.deployed, d.st.failed)
    : d \in {DeployBundle(l.dk, reg, l.bundle, importDir, storeDir, force, order, {})} })
  : l \in {ImportBundle(dk, AtEmptyPath, importDir, order)} })

runDeploy ==
  /\ dres.op = "import"
  /\ \E force \in BOOLEAN, order \in AppOrders :
       \E r \in {runDeployCmd(disk, registry, theBundle, TargetDir, StoreDir, force, order)} :
          /\ disk' = r.dk
          /\ registry' = r.reg
          /\ theBundle' = r.bundle
          /\ dres' = [op |-> "deploycmd", err |-> r.err, app |-> "", path |-> <<>>,
                      deployed |-> r.deployed, failed |-> r.failed, force |-> force]
  /\ UNCHANGED archive
  /\ UNCHANGED syncVars

BundleNext ==
  \/ Export
  \/ runImport
  \/ DeployImported
  \/ runDeploy

BundleSpec == BundleInit /\ [][BundleNext]_vars

-----------------------------------------------------------------------------
(* The remove command on the configured app (removeApplications,           *)
(* removeApplication): UnsyncApp with the global --dry-run flag, then      *)
(* config.Manager.RemoveApp.  registry is cfg.Apps; ret.failed of a        *)
(* removal holds the paths whose unsync failed.                            *)

\* a removal that goes on whatever UnsyncApp returned
removeProceeds_Always(errs, d) == TRUE

\* removeApplication after UnsyncApp: it returns on an error, and skips
\* RemoveApp in a dry run
removeProceeds(errs, d) == errs = <<>> /\ ~d

RemoveInit ==
  /\ SyncInit
  /\ archive = NoArchive
  /\ disk = RootOnly
  /\ theBundle = NoBundle
  /\ registry = [a \in {AppName} |->
                   BundleApp([p \in Paths |-> BundlePath(DestOf(p), app.Paths[p].Required)])]
  /\ dres = NoDres

\* removeApplications finds the app in cfg.Apps; removeApplication calls
\* UnsyncApp
RemoveEnter ==
  /\ AppName \in DOMAIN registry
  /\ UnsyncAppEnter

\* removeApplication after UnsyncApp's loop
removeApplication ==
  /\ pc = "unsync"
  /\ idx > Len(app.Paths)
  /\ registry' = IF removeProceeds(errors, dryRun)
                 THEN [a \in DOMAIN registry \ {AppName} |-> registry[a]]
                 ELSE registry
  /\ ret' = [op |-> "remove", failed |-> errors]
  /\ pc' = "idle"
  /\ idx' = 1
  /\ dryRun' = FALSE
  /\ errors' = <<>>
  /\ out' = NoOut
  /\ UNCHANGED <<app, fs, hist>>
  /\ UNCHANGED <<archive, disk, theBundle, dres>>

RemoveNext ==
  \/ RemoveEnter
  \/ UnsyncPath
  \/ removeApplication

RemoveSpec == RemoveInit /\ [][RemoveNext]_vars

-----------------------------------------------------------------------------
(* The sync command, then a deploy on the same machine.  The configured    *)
(* app is the registry's "x", with one registry path per tracked path.     *)
(* ret.LastSync of a sync command is cfg.LastSync as the config file has   *)
(* it afterwards (0: never), and ret.failed the paths that failed.         *)

\* SyncApp's loop from path i on
RECURSIVE syncAppLoop(_, _, _, _)
syncAppLoop(f, ac, i, d) ==
  IF i > Len(ac.Paths) THEN [f |-> f, app |-> ac, failed |-> <<>>]
  ELSE The({ The({ [f |-> rest.f, app |-> rest.app,
                    failed |-> collectErrors(<<>>, i, r.err) \o rest.failed]
                 : rest \in {syncAppLoop(r.f,
                               [ac EXCEPT !.Paths[i] =
                                  The({ IF r.err = NoErr /\ ~d THEN MarkSynced(b) ELSE b
                                      : b \in {IF r.bu THEN MarkBackedUp(ac.Paths[i])
                                                        ELSE ac.Paths[i]} })],
                               i + 1, d)} })
           : r \in {syncPath(f, i, ac.Paths[i], d)} })

\* config.Manager.UpdateLastSync: sets cfg.LastSync and saves; what it
\* leaves in cfg.Apps
UpdateLastSync(reg, now) == reg

SyncDeployInit ==
  /\ SyncInit
  /\ app.Enabled
  /\ \A p \in Paths : app.Paths[p].Type = "file" /\ ~app.Paths[p].Required
  /\ archive = NoArchive
  /\ theBundle = [Version |-> <<"1">>, CreatedAt |-> 1,
                  Apps |-> [a \in {"x"} |->
                              BundleApp(<<BundlePath(<<"a">>, FALSE), BundlePath(<<"b">>, FALSE)>>)]]
  /\ \E sg \in Stagings(theBundle) :
       disk = MkDisk({<<<<"/">>, DDir>>, <<TargetDir, DDir>>, <<StoreDir, DDir>>,
                      <<filepathJoin(TargetDir, FilesName), DDir>>} \cup sg)
  /\ registry = theBundle.Apps
  /\ dres = NoDres

\* the sync command on every configured app
runSync ==
  /\ pc = "idle"
  /\ dres = NoDres
  /\ \E d \in BOOLEAN :
       \E r \in {syncAppLoop(fs, app, 1, d)} :
         /\ fs' = r.f
         /\ app' = r.app
         /\ registry' = IF ~d /\ r.failed = <<>> THEN UpdateLastSync(registry, fs.now)
                        ELSE registry
         /\ ret' = [op |-> "synccmd", failed |-> r.failed,
                    LastSync |-> IF ~d /\ r.failed = <<>> THEN fs.now
                                 ELSE IF ret.op = "synccmd" THEN ret.LastSync ELSE 0]
         /\ out' = [op |-> "synccmd", p |-> 0, dryRun |-> d, err |-> NoErr, ops |-> <<>>]
  /\ UNCHANGED <<pc, idx, dryRun, errors, hist>>
  /\ UNCHANGED <<archive, disk, theBundle, dres>>

SyncDeployNext ==
  \/ runSync
  \/ Tick
  \/ Deploy

SyncDeploySpec == SyncDeployInit /\ [][SyncDeployNext]_vars

-----------------------------------------------------------------------------
(* A sync that dies between two of its filesystem calls, and the sync run  *)
(* after it.  The run that died was a real one on the first path; what it  *)
(* leaves is the filesystem after a prefix of syncPath's calls.  Its       *)
(* process is gone, so the flags it would have set are not set.  The       *)
(* clock moves on before the next run.                                     *)

\* the filesystems syncPath passes through, with the calls made so far:
\* os.MkdirAll of the store directory; for a symlink os.Remove; for a file
\* or directory the snapshot created but not filled (os.Create, or the
\* os.MkdirAll of copyDir's root), copyPath done and the record not saved,
\* BackupPath done, os.Rename done
syncPathPrefixes(f, p, cp) ==
  LET d == ensureStoreDirectory(f, p, cp, FALSE)
      snap == BackupLoc(getBackupPath(TempApp, cp.Destination))
      n == Lstat(d.f, SrcLoc(p))
      m == moveSourceToStore(d.f, p, cp, FALSE)
  IN IF isCorrectSymlink(f, p) THEN {}
     ELSE {[f |-> d.f, ops |-> <<"mkdir">>]}
          \cup (IF ~pathExists(d.f, SrcLoc(p)) THEN {}
                ELSE IF isSymlink(d.f, SrcLoc(p))
                THEN {[f |-> removeExistingSymlink(d.f, p, FALSE).f, ops |-> <<"mkdir", "remove">>]}
                ELSE {[f |-> Put(d.f, snap, IF n.k = "dir" THEN Dir("empty", <<>>) ELSE File(<<>>)),
                       ops |-> <<"mkdir", "create">>],
                      [f |-> copyPath(d.f, SrcLoc(p), snap).f, ops |-> <<"mkdir", "copy">>],
                      [f |-> BackupPath(d.f, TempApp, p, cp).f, ops |-> <<"mkdir", "backup">>]}
                     \cup (IF m.err = NoErr
                           THEN {[f |-> m.f, ops |-> <<"mkdir", "backup", "move">>]}
                           ELSE {}))

CrashInit ==
  /\ Init
  /\ app.Enabled
  /\ \A p \in Paths : ~app.Paths[p].Required

\* a real sync of the first path that stops after one of its calls
Interrupt ==
  /\ pc = "idle"
  /\ fs.now = 1
  /\ \E r \in syncPathPrefixes(fs, 1, app.Paths[1]) :
       /\ fs' = [r.f EXCEPT !.now = 2]
       /\ out' = [op |-> "interrupted", p |-> 1, dryRun |-> FALSE, err |-> NoErr,
                  ops |-> r.ops, store |-> fs.store[1]]
       /\ hist' = [hist EXCEPT ![1] =
                     [last |-> "interrupted",
                      orig |-> IF IsRegular(fs.src[1]) THEN fs.src[1] ELSE None,
                      moved |-> IF IsRegular(fs.src[1]) THEN fs.src[1] ELSE None]]
  /\ UNCHANGED <<app, pc, idx, dryRun, errors, ret>>
  /\ UNCHANGED bundleVars

CrashNext ==
  \/ Interrupt
  \/ SyncAppEnter
  \/ SyncPath
  \/ SyncAppReturn

CrashSpec == CrashInit /\ [][CrashNext]_vars

\* the user does run sync again, for real, and a run that started goes on
ReRun == SyncAppEnter /\ ~dryRun'

CrashFairSpec ==
  /\ CrashSpec
  /\ SF_vars(ReRun)
  /\ WF_vars(SyncPath)
  /\ WF_vars(SyncAppReturn)

-----------------------------------------------------------------------------
(* Two invocations of sync on the first path at once (two terminal         *)
(* sessions).  Each is its own process: pc[i] is the filesystem call it    *)
(* makes next and out[i] what it holds in memory (the digest and size it   *)
(* computed, the file it has open, its error).  A step is one call; the    *)
(* walk of a directory copy is taken as one step.  Both runs are real.     *)

\* the invocations running at once
NProcs == 2

Procs == 1..NProcs

NoLocal == [sum |-> <<>>, size |-> 0, node |-> None, err |-> NoErr]

Snap(cp) == BackupLoc(getBackupPath(TempApp, cp.Destination))

\* process i goes on to label lab with filesystem f and memory l
Go(i, f, l, lab) ==
  /\ fs' = f
  /\ out' = [out EXCEPT ![i] = l]
  /\ pc' = [pc EXCEPT ![i] = lab]
  /\ UNCHANGED <<app, idx, dryRun, errors, ret, hist>>
  /\ UNCHANGED bundleVars

\* process i returns err
Done(i, f, err) == Go(i, f, [out[i] EXCEPT !.err = err], "done")

\* both processes start; what the source and the store held is noted
RaceStart ==
  /\ ret.op # "race"
  /\ pc = "idle"
  /\ IsEnabled(app)
  /\ pc' = [i \in Procs |-> "probe"]
  /\ out' = [i \in Procs |-> NoLocal]
  /\ hist' = [hist EXCEPT ![1] = [last |-> "race",
                                  orig |-> IF IsRegular(fs.src[1]) THEN fs.src[1] ELSE None,
                                  moved |-> None]]
  /\ ret' = [op |-> "race", failed |-> <<>>, store |-> fs.store[1]]
  /\ UNCHANGED <<app, fs, idx, dryRun, errors>>
  /\ UNCHANGED bundleVars

\* syncPath's own calls: isCorrectSymlink's os.Lstat and os.Readlink,
\* os.MkdirAll of the store directory, and the two os.Stat before the link
raceSyncPath(i) ==
  LET cp == app.Paths[1] IN
  \/ /\ pc[i] = "probe"
     /\ Go(i, fs, out[i], IF isSymlink(fs, SrcLoc(1)) THEN "readlink" ELSE "mkdir")
  \/ /\ pc[i] = "readlink"
     /\ IF isCorrectSymlink(fs, 1) THEN Done(i, fs, NoErr)
        ELSE Go(i, fs, out[i], "mkdir")
  \/ /\ pc[i] = "mkdir"
     /\ Go(i, ensureStoreDirectory(fs, 1, cp, FALSE).f, out[i], "exists")
  \/ /\ pc[i] = "statsource"
     /\ Go(i, fs, out[i], IF pathExists(fs, SrcLoc(1)) THEN "symlink" ELSE "statstore")
  \/ /\ pc[i] = "statstore"
     /\ IF pathExists(fs, StoreLoc(1)) THEN Go(i, fs, out[i], "symlink")
        ELSE Done(i, fs, handleMissingPath(fs, cp).err)

\* handleExistingSource: os.Stat, os.Lstat, and removeExistingSymlink's
\* os.Remove (which takes whatever is at the path but a directory with
\* entries)
raceHandleExistingSource(i) ==
  \/ /\ pc[i] = "exists"
     /\ Go(i, fs, out[i], IF pathExists(fs, SrcLoc(1)) THEN "islink" ELSE "statsource")
  \/ /\ pc[i] = "islink"
     /\ Go(i, fs, out[i], IF isSymlink(fs, SrcLoc(1)) THEN "remove" ELSE "bexists")
  \/ /\ pc[i] = "remove"
     /\ LET n == Lstat(fs, SrcLoc(1)) IN
        IF n.k = "none" \/ (n.k = "dir" /\ n.e # "empty")
        THEN Done(i, fs, "failed to remove existing symlink")
        ELSE Go(i, removeExistingSymlink(fs, 1, FALSE).f, out[i], "statsource")

\* BackupPath("temp", path): its probes, the digest, the size, copyPath's
\* os.Stat, the copy of a directory, and the record; a failure is a warning
\* and the move follows
raceBackupPath(i) ==
  LET cp == app.Paths[1] IN
  \/ /\ pc[i] = "bexists"
     /\ Go(i, fs, out[i], IF pathExists(fs, SrcLoc(1)) THEN "bislink" ELSE "rename")
  \/ /\ pc[i] = "bislink"
     /\ Go(i, fs, out[i],
           IF isSymlink(fs, SrcLoc(1)) THEN "rename"
           ELSE IF cp.Type = "file" THEN "checksum" ELSE "size")
  \/ /\ pc[i] = "checksum"
     /\ \E r \in {calculateChecksum(fs, SrcLoc(1))} :
          IF r.err # NoErr THEN Go(i, fs, out[i], "rename")
          ELSE Go(i, fs, [out[i] EXCEPT !.sum = r.sum], "size")
  \/ /\ pc[i] = "size"
     /\ \E r \in {calculateSize(fs, SrcLoc(1))} :
          IF r.err # NoErr THEN Go(i, fs, out[i], "rename")
          ELSE Go(i, fs, [out[i] EXCEPT !.size = r.size], "cstat")
  \/ /\ pc[i] = "cstat"
     /\ Go(i, fs, out[i],
           IF ~pathExists(fs, SrcLoc(1)) THEN "rename"
           ELSE IF Stat(fs, SrcLoc(1)).k = "dir" THEN "copydir" ELSE "open")
  \/ /\ pc[i] = "copydir"
     /\ \E r \in {IF Lstat(fs, SrcLoc(1)).k = "none" THEN [f |-> fs, err |-> "lstat"]
                  ELSE IF Lstat(fs, SrcLoc(1)).k = "dir" THEN copyDir(fs, SrcLoc(1), Snap(cp))
                  ELSE copyFile(fs, SrcLoc(1), Snap(cp))} :
          Go(i, r.f, out[i], IF r.err # NoErr THEN "rename" ELSE "saveinfo")
  \/ /\ pc[i] = "saveinfo"
     /\ Go(i, saveBackupInfo(fs, [AppName |-> TempApp, OriginalPath |-> expandPath(cp.Source),
                                  BackupPath |-> getBackupPath(TempApp, cp.Destination),
                                  CreatedAt |-> fs.now,
                                  Size |-> out[i].size, Checksum |-> out[i].sum]),
           out[i], "rename")

\* copyFile: os.Open (the open file stays the file it was when the path is
\* renamed), os.Create, io.Copy
raceCopyFile(i) ==
  LET cp == app.Paths[1] IN
  \/ /\ pc[i] = "open"
     /\ IF Stat(fs, SrcLoc(1)).k = "none" THEN Go(i, fs, out[i], "rename")
        ELSE Go(i, fs, [out[i] EXCEPT !.node = Stat(fs, SrcLoc(1))], "create")
  \/ /\ pc[i] = "create"
     /\ IF Lstat(fs, Snap(cp)).k = "dir" THEN Go(i, fs, out[i], "rename")
        ELSE Go(i, Put(fs, Snap(cp), File(<<>>)), out[i], "copy")
  \/ /\ pc[i] = "copy"
     /\ IF out[i].node.k = "dir" THEN Go(i, fs, out[i], "rename")
        ELSE Go(i, Put(fs, Snap(cp), File(out[i].node.c)), out[i], "saveinfo")

\* moveToStore: os.Rename of what is at the source now
raceMoveToStore(i) ==
  /\ pc[i] = "rename"
  /\ \E m \in {moveToStore(fs, 1, app.Paths[1])} :
       IF m.err # NoErr THEN Done(i, m.f, "failed to move to store")
       ELSE Go(i, m.f, out[i], "statsource")

\* createSymlink: os.Symlink
raceCreateSymlink(i) ==
  /\ pc[i] = "symlink"
  /\ \E c \in {createSymlink(fs, 1)} :
       Done(i, c.f, IF c.err # NoErr THEN "failed to create symlink" ELSE NoErr)

RaceRunning == ret.op = "race"

RaceNext ==
  \/ RaceStart
  \/ \E i \in Procs : RaceRunning /\ raceSyncPath(i)
  \/ \E i \in Procs : RaceRunning /\ raceHandleExistingSource(i)
  \/ \E i \in Procs : RaceRunning /\ raceBackupPath(i)
  \/ \E i \in Procs : RaceRunning /\ raceCopyFile(i)
  \/ \E i \in Procs : RaceRunning /\ raceMoveToStore(i)
  \/ \E i \in Procs : RaceRunning /\ raceCreateSymlink(i)

RaceSpec == Init /\ [][RaceNext]_vars

-----------------------------------------------------------------------------
(* The claims.  InSyncPath and InUnsyncPath hold in the states from which  *)
(* the next step is the loop body on path idx.                             *)

InSyncPath == pc = "sync" /\ idx <= Len(app.Paths)
InUnsyncPath == pc = "unsync" /\ idx <= Len(app.Paths)

TempSnapshot(f, p) == f.bfiles[getBackupPath(TempApp, app.Paths[p].Destination)]
TempRecord(f, p) == f.binfo[getBackupInfoPath(TempApp, expandPath(app.Paths[p].Source))]

\* C1: unsync of a path whose source is not a symlink to its store path
\* (a regular file or directory, a foreign or dangling symlink, or nothing)
\* returns success and changes nothing on the filesystem.
C1_UnsyncLeavesOtherSources ==
  [][(InUnsyncPath /\ ~isCorrectSymlink(fs, idx))
       => (out'.err = NoErr /\ fs' = fs /\ errors' = errors)]_vars

\* a real unsync has run over a dangling foreign symlink, which is still there
C1_Witness ==
  /\ out.op = "unsync" /\ ~out.dryRun /\ out.err = NoErr
  /\ fs.src[out.p] = Link("ext") /\ fs.ext[out.p] = None

\* C2 (as claimed): a real unsync right after a real sync of a regular file
\* or directory leaves at source exactly what was there before the sync.
C2_RoundTrip ==
  [][(InUnsyncPath /\ ~dryRun /\ hist[idx].last \in {"syncok", "syncerr"}
        /\ IsRegular(hist[idx].orig))
       => (out'.err = NoErr /\ fs'.src[idx] = hist[idx].orig)]_vars

\* C3: a real sync of a path whose previous real step was a successful sync
\* succeeds again, has synced true before and after, and leaves source,
\* store and backups as they were.
C3_SecondSyncIsNoOp ==
  [][(InSyncPath /\ ~dryRun /\ hist[idx].last = "syncok")
       => (/\ out'.err = NoErr
           /\ app.Paths[idx].Synced /\ app'.Paths[idx].Synced
           /\ fs' = fs)]_vars

\* a sync found nothing to do on a path an earlier sync had moved into the store
C3_Witness ==
  /\ out.op = "sync" /\ ~out.dryRun /\ out.err = NoErr /\ out.ops = <<>>
  /\ hist[out.p].last = "syncok" /\ hist[out.p].moved # None
  /\ app.Paths[out.p].Synced

\* C4 (as claimed): between calls, every path whose Synced flag is true has
\* a source that is a symlink to its store path.
C4_SyncedMeansLinked ==
  pc = "idle" => \A p \in Paths : app.Paths[p].Synced => isCorrectSymlink(fs, p)

C6_ForeignSymlinkAsMissing ==
  [][(InSyncPath /\ ~dryRun /\ fs.src[idx] = Link("ext"))
       => (/\ fs' = syncPath(Put(fs, SrcLoc(idx), None), idx, app.Paths[idx], FALSE).f
           /\ out'.err = syncPath(Put(fs, SrcLoc(idx), None), idx, app.Paths[idx], FALSE).err)]_vars

\* C7: sync of a path with nothing at source and nothing at its store path
\* fails with RequiredPathMissing when the path is required, and otherwise
\* succeeds and leaves nothing at source and at the store path.
C7_RequiredPathEnforced ==
  [][(InSyncPath /\ fs.src[idx] = None /\ fs.store[idx] = None)
       => IF app.Paths[idx].Required
          THEN out'.err = "RequiredPathMissing" /\ errors' = Append(errors, idx)
          ELSE /\ out'.err = NoErr /\ errors' = errors
               /\ fs'.src[idx] = None /\ fs'.store[idx] = None]_vars

\* a real sync failed on a required path that is nowhere
C7_Witness ==
  /\ out.op = "sync" /\ ~out.dryRun /\ out.err = "RequiredPathMissing"
  /\ app.Paths[out.p].Required
  /\ fs.src[out.p] = None /\ fs.store[out.p] = None

\* C8 (as claimed): a path whose BackedUp flag is true has, at its snapshot
\* address, the source that the sync moved into the store.
C8_BackedUpMeansSnapshot ==
  \A p \in Paths : app.Paths[p].BackedUp => TempSnapshot(fs, p) = hist[p].moved

\* C9: a step of a dry-run SyncApp or UnsyncApp changes neither the
\* filesystem nor any path's flags.
C9_DryRunChangesNothing ==
  [][(pc \in {"sync", "unsync"} /\ dryRun) => (fs' = fs /\ app' = app)]_vars

\* a dry-run sync announced the move of a regular source, which is still there
C9_Witness ==
  /\ out.op = "sync" /\ out.dryRun /\ out.ops = <<"mkdir", "move", "symlink">>
  /\ IsRegular(fs.src[out.p]) /\ ~app.Paths[out.p].Synced

SameButBackup(announced, performed) ==
  announced = SelectSeq(performed, LAMBDA o : o # "backup")

\* C10 (as claimed): from every state, the dry-run sync of a path reports
\* the outcome of the real sync and announces the mutations the real sync
\* performs (the backup copy, which a dry run never announces, left aside).
C10_DryRunPreviewsRealRun ==
  pc = "idle" =>
    \A p \in Paths :
      /\ syncPath(fs, p, app.Paths[p], TRUE).err = syncPath(fs, p, app.Paths[p], FALSE).err
      /\ SameButBackup(syncPath(fs, p, app.Paths[p], TRUE).ops,
                       syncPath(fs, p, app.Paths[p], FALSE).ops)

\* C12: SyncApp and UnsyncApp start with no error collected, go on to the
\* next path whether or not the path at hand failed, append to the error
\* list exactly the paths that failed, and return that list only after the
\* last path.
C12_AggregateErrorNamesFailures ==
  [][/\ (pc = "idle" /\ pc' # "idle") => (idx' = 1 /\ errors' = <<>>)
     /\ (InSyncPath \/ InUnsyncPath)
          => /\ pc' = pc /\ idx' = idx + 1
             /\ out'.p = idx
             /\ errors' = IF out'.err # NoErr THEN Append(errors, idx) ELSE errors
     /\ (pc # "idle" /\ pc' = "idle")
          => (idx > Len(app.Paths) /\ ret'.failed = errors)]_vars

\* a real SyncApp failed on the first path, went on to link the second, and
\* returned an error naming the first path only
C12_Witness ==
  /\ pc = "idle" /\ ret.op = "sync" /\ ret.failed = <<1>>
  /\ hist[1].last = "syncerr"
  /\ hist[2].last = "syncok" /\ hist[2].moved # None /\ isCorrectSymlink(fs, 2)

\* C13: SyncApp on a disabled app returns success, never enters the loop
\* over its paths, and leaves the filesystem and every flag as they were.
C13_DisabledAppSkipped ==
  [][(pc = "idle" /\ ~app.Enabled)
       => /\ pc' # "sync"
          /\ ret'.op = "sync" => (ret'.failed = <<>> /\ fs' = fs /\ app' = app
                                  /\ pc' = "idle")]_vars

\* SyncApp has returned on a disabled app whose first source is a regular
\* file, which is still there and not marked
C13_Witness ==
  /\ ~app.Enabled /\ pc = "idle" /\ ret.op = "sync" /\ ret.failed = <<>>
  /\ fs.src[1].k = "file" /\ ~app.Paths[1].Synced /\ ~app.Paths[1].BackedUp

\* C11 (as claimed): a backup or restore command run with the global
\* dry-run flag set leaves the filesystem as it was.
C11_DryRunHonouredByCommands ==
  [][(out'.op \in {"backup", "restore"} /\ out'.dryRun) => fs' = fs]_vars

LeavesTarget(e) == ~Below(filepathJoin(TargetDir, e.Name), TargetDir)

\* C14 (as claimed): importing an archive one of whose entries, at whatever
\* position, resolves outside the target directory fails with "invalid path
\* in archive" and writes nothing of the archive: the disk holds what it
\* held, and the target directory.
C14_TraversalWritesNothing ==
  [][(archive.exists /\ \E i \in DOMAIN archive.entries : LeavesTarget(archive.entries[i]))
       => (/\ dres'.err = "invalid path in archive"
           /\ disk' = diskMkdirAll(disk, TargetDir).dk)]_vars

\* C15: whatever an import creates or overwrites on the disk is the target
\* directory or lies below it.
C15_ExtractionStaysInside ==
  [][dres'.op = "import"
       => \A q \in DOMAIN disk' :
            (q \notin DOMAIN disk \/ disk'[q] # disk[q])
              => (q = TargetDir \/ Below(q, TargetDir))]_vars

\* an import wrote the manifest below the target and then stopped at an
\* entry that leaves it
C15_Witness ==
  /\ dres.op = "import" /\ dres.err = "invalid path in archive"
  /\ filepathJoin(TargetDir, BundleYaml) \in DOMAIN disk
  /\ \E i \in DOMAIN archive.entries :
       /\ i > 1 /\ archive.entries[i].Name = <<".", ".", "/", "t", "t">>
       /\ \A j \in 1..(i - 1) : ~LeavesTarget(archive.entries[j])

StagedPath(dk, appName, dest) ==
  filepathJoin(filepathJoin(filepathJoin(TargetDir, FilesName), <<appName>>), dest) \in DOMAIN dk

\* the (app, destination) pairs of the manifest's required paths that are
\* not staged
RequiredMissing(dk, m) ==
  UNION {{<<a, m.Apps[a].Paths[i].Destination>> :
            i \in {j \in DOMAIN m.Apps[a].Paths :
                     m.Apps[a].Paths[j].Required
                     /\ ~StagedPath(dk, a, m.Apps[a].Paths[j].Destination)}}
         : a \in DOMAIN m.Apps}

\* C20 (as claimed): an import that got as far as reading the manifest
\* returns the bundle only if the manifest has a version and every required
\* path is staged; otherwise it fails with "missing bundle version", or with
\* "required file missing" naming an app and a required path of it that is
\* not staged.
C20_ImportValidatesBundle ==
  [][(dres'.op = "import"
        /\ dres'.err \notin {"bundle file not found", "failed to create target directory",
                             "invalid path in archive", "mkdir", "open",
                             "failed to load bundle metadata"})
       => LET m == CHOOSE x \in Manifests :
                       yamlMarshal(x) = disk'[filepathJoin(TargetDir, BundleYaml)].body
          IN IF m.Version # <<>> /\ RequiredMissing(disk', m) = {}
             THEN dres'.err = NoErr => theBundle' = m
             ELSE \/ m.Version = <<>> /\ dres'.err = "missing bundle version"
                  \/ /\ m.Version # <<>> /\ dres'.err = "required file missing"
                     /\ <<dres'.app, dres'.path>> \in RequiredMissing(disk', m)]_vars

\* does the local registry hold app a of the bundle with a later sync or
\* another count of paths
Flagged(a) ==
  /\ a \in DOMAIN theBundle.Apps
  /\ a \in DOMAIN registry
  /\ \/ registry[a].LastSynced > theBundle.CreatedAt
     \/ Len(registry[a].Paths) # Len(theBundle.Apps[a].Paths)

\* the part of the disk below the store directory
StoreOf(dk) == [q \in {x \in DOMAIN dk : HasPrefix(x, StoreDir)} |-> dk[q]]

\* C17: conflict detection flags an app exactly when it is in both the
\* bundle and the local registry and its local lastSynced is strictly after
\* the bundle's creation time or its path counts differ; an app with
\* lastSynced not after the creation time and equal path counts is never
\* flagged.
C17_ConflictsExactlyNewerOrPathCount ==
  \A a \in AppNames :
    (\E c \in detectConflicts(theBundle, registry) : c[1] = a) <=> Flagged(a)

\* a deploy was refused for an app synced after the bundle was made, with
\* the bundle's count of paths, next to an app synced at the very instant
\* the bundle was made, which was not flagged
C17_Witness ==
  /\ dres.op = "deploy"
  /\ dres.err = "use --force to override conflicts"
  /\ \E a, b \in DOMAIN theBundle.Apps \cap DOMAIN registry :
       /\ registry[a].LastSynced > theBundle.CreatedAt
       /\ Len(registry[a].Paths) = Len(theBundle.Apps[a].Paths)
       /\ registry[b].LastSynced = theBundle.CreatedAt
       /\ Len(registry[b].Paths) = Len(theBundle.Apps[b].Paths)
       /\ <<a, "newer">> \in detectConflicts(theBundle, registry)
       /\ ~\E c \in detectConflicts(theBundle, registry) : c[1] = b

\* C16: if conflict detection reports at least one conflict and force is
\* false, deploy fails with the conflict error and leaves the store and the
\* registry exactly as they were.
C16_ConflictWithoutForceChangesNothing ==
  [][(dres'.op = "deploy" /\ dres.op # "deploy" /\ ~dres'.force
      /\ \E a \in AppNames : Flagged(a))
     => /\ dres'.err = "use --force to override conflicts"
        /\ StoreOf(disk') = StoreOf(disk)
        /\ registry' = registry]_vars

\* a deploy without force was refused although a staged file of an app of
\* the bundle was there to be copied and the app was not in the registry
C16_Witness ==
  /\ dres.op = "deploy"
  /\ ~dres.force
  /\ dres.err = "use --force to override conflicts"
  /\ \E a \in DOMAIN theBundle.Apps :
       /\ a \notin DOMAIN registry
       /\ diskExists(disk, filepathJoin(AppFilesDir(a), theBundle.Apps[a].Paths[1].Destination))
       /\ ~diskExists(disk, filepathJoin(StoreDir, theBundle.Apps[a].Paths[1].Destination))

\* did the deploy that ended in this state go through the apps
Deployed == dres.op = "deploy" /\ dres.err # "use --force to override conflicts"

MissingStaged(a, rq) ==
  \E i \in DOMAIN theBundle.Apps[a].Paths :
    /\ theBundle.Apps[a].Paths[i].Required = rq
    /\ ~diskExists(disk, filepathJoin(AppFilesDir(a), theBundle.Apps[a].Paths[i].Destination))

\* C19: during deploy, an app that has a required path whose staged file is
\* missing from the bundle directory is counted as failed and is not
\* upserted into the registry, while a missing staged file for a
\* non-required path is skipped and the app is still upserted.
C19_MissingRequiredFailsTheApp ==
  [][(dres'.op = "deploy" /\ dres.op # "deploy"
      /\ dres'.err # "use --force to override conflicts")
     => \A a \in DOMAIN theBundle.Apps :
          /\ MissingStaged(a, TRUE)
             => /\ a \in dres'.failed
                /\ a \in DOMAIN registry' <=> a \in DOMAIN registry
                /\ a \in DOMAIN registry => registry'[a] = registry[a]
          /\ (MissingStaged(a, FALSE) /\ ~MissingStaged(a, TRUE) /\ a \in dres'.deployed)
             => /\ a \in DOMAIN registry'
                /\ registry'[a] = theBundle.Apps[a]]_vars

\* the snapshot address of path p of the app
SnapshotAt(f, p) == f.bfiles[getBackupPath(AppName, app.Paths[p].Destination)]

\* the step is a RestorePath (a BackupPath) of one path, which out' names
RestoreStep == pc = "idle" /\ out'.op = "restore" /\ out'.p \in Paths
BackupStep == pc = "idle" /\ out'.op = "backup" /\ out'.p \in Paths

\* C25: restore fails with the missing-backup error whenever no snapshot
\* exists at the address derived from (app, destination), and in that case
\* leaves whatever is at source untouched.
C25_RestoreWithoutSnapshotFails ==
  [][(RestoreStep /\ SnapshotAt(fs, out'.p) = None)
     => /\ out'.err = "backup does not exist"
        /\ fs' = fs]_vars

\* a restore found no snapshot and left the file at its source alone
C25_Witness ==
  /\ out.op = "restore"
  /\ out.err = "backup does not exist"
  /\ SnapshotAt(fs, out.p) = None
  /\ fs.src[out.p].k = "file"

\* C26: a successful restore first removes whatever is at source, whether a
\* regular file, a directory, a symlink, or a stale symlink whose target is
\* gone, so that afterwards source is a regular (non-symlink) copy of the
\* snapshot and nothing outside source has been written.
C26_RestoreReplacesWhateverIsAtSource ==
  [][(RestoreStep /\ out'.err = NoErr)
     => /\ IsRegular(fs'.src[out'.p])
        /\ fs'.src[out'.p] = SnapshotAt(fs, out'.p)
        /\ \A q \in Paths \ {out'.p} : fs'.src[q] = fs.src[q]
        /\ fs'.ext = fs.ext
        /\ fs'.store = fs.store
        /\ fs'.bfiles = fs.bfiles
        /\ fs'.binfo = fs.binfo]_vars

\* C27: for any file or directory, backup followed by arbitrary modification
\* or deletion of source followed by restore returns source to exactly the
\* content it had at the time of the most recent backup, with no extra and
\* no missing files.
C27_BackupEditRestoreRoundTrip ==
  [][(RestoreStep /\ hist[out'.p].last = "backup")
     => /\ out'.err = NoErr
        /\ fs'.src[out'.p] = hist[out'.p].orig]_vars

\* C28: backup of a path whose resolved source does not exist or is a
\* symlink returns success and writes neither a snapshot nor a sidecar
\* record.
C28_BackupOfNothingOrSymlinkIsNoOp ==
  [][(BackupStep /\ fs.src[out'.p].k \in {"none", "link"})
     => /\ out'.err = NoErr
        /\ fs'.bfiles = fs.bfiles
        /\ fs'.binfo = fs.binfo]_vars

\* a backup ran on a symlink with a file behind it, returned success, and
\* the store has neither snapshot nor record for the app
C28_Witness ==
  /\ out.op = "backup"
  /\ out.err = NoErr
  /\ fs.src[out.p].k = "link"
  /\ Stat(fs, SrcLoc(out.p)).k = "file"
  /\ \A a \in DOMAIN fs.bfiles : fs.bfiles[a] = None
  /\ \A a \in DOMAIN fs.binfo : fs.binfo[a] = NoInfo

\* the records of the app in the store, by the address of their document
RecordsOf(f) == {a \in DOMAIN f.binfo : a[2] = AppName /\ f.binfo[a] # NoInfo}

\* C29: backup records are append-only: a record, once written, is never
\* modified or replaced by a later backup call, and superseded records stay
\* in place until cleanup prunes them by age.
C29_RecordsAreAppendOnly ==
  [][(pc = "idle" /\ out'.op # "cleanup")
     => \A a \in RecordsOf(fs) : fs'.binfo[a] = fs.binfo[a]]_vars

\* is record b older than the cutoff of a cleanup run in f with keepDays
Expired(f, b, keepDays) == b.CreatedAt < f.now - keepDays

ExportStep == dres.op = "none" /\ dres'.op = "export"

\* C21: export fails with the unknown-application error if any named app is
\* not in the registry and with the nothing-to-export error if the resulting
\* selection is empty, and in both cases no archive is created at the output
\* path.
C21_ExportRejectsUnknownAndEmpty ==
  [][ExportStep
     => /\ (\E i \in DOMAIN dres'.path : dres'.path[i] \notin DOMAIN registry)
             => /\ dres'.err = "application not found"
                /\ archive' = archive
        /\ (dres'.path = <<>> /\ DOMAIN registry = {})
             => /\ dres'.err = "no applications to export"
                /\ archive' = archive]_vars

\* an export of a known and an unknown app failed and left no archive
C21_Witness ==
  /\ dres.op = "export"
  /\ dres.path = <<"x", "z">>
  /\ "x" \in DOMAIN registry
  /\ dres.err = "application not found"
  /\ dres.app = "z"
  /\ archive = NoArchive

\* an import command ran on the archive of a successful export
ImportStep == dres.op = "export" /\ dres.err = NoErr /\ dres'.op = "import"

\* the apps an export was asked for: all of the registry for no names
Exported(reg, apps) ==
  IF apps = <<>> THEN reg
  ELSE [a \in {apps[i] : i \in DOMAIN apps} |-> reg[a]]

\* what is at path and below it in dk, by the path relative to it
TreeAt(dk, path) ==
  {<<SubSeq(q, Len(path) + 1, Len(q)), dk[q]>> :
     q \in {x \in DOMAIN dk : x = path \/ Below(x, path)}}

\* C22: for any registry selection and any store state, importing the
\* archive produced by a successful export succeeds and yields a bundle
\* whose app-to-path map equals the exported selection, with the staged
\* files under files/<appName>/<destination> identical to the store files
\* that existed at export time.
C22_ImportOfExportRoundTrips ==
  [][ImportStep
     => /\ dres'.err = NoErr
        /\ theBundle'.Apps = Exported(registry, dres.path)
        /\ \A a \in DOMAIN Exported(registry, dres.path) :
             \A i \in DOMAIN registry[a].Paths :
               TreeAt(disk', filepathJoin(AppFilesDir(a), registry[a].Paths[i].Destination))
               = TreeAt(disk, filepathJoin(StoreDir, registry[a].Paths[i].Destination))]_vars

\* the bundle that a successful import returned was deployed
DeployStep == dres.op = "import" /\ dres.err = NoErr /\ dres'.op = "deploy"

\* the store has no file for path cp
Unsynced(dk, cp) == ~diskExists(dk, filepathJoin(StoreDir, cp.Destination))

\* the bundle directory has no staged file for path cp of app a
Unstaged(dk, a, cp) == ~diskExists(dk, filepathJoin(AppFilesDir(a), cp.Destination))

\* C23: exporting an app whose tracked path has no store file succeeds and
\* omits that file from the bundle; importing and then deploying that bundle
\* with the path marked required=false succeeds, copies no file for that
\* path, and registers the app.
C23_UnsyncedOptionalPathExportsAndDeploys ==
  [][
    /\ (/\ ExportStep
       /\ \A i \in DOMAIN dres'.path : dres'.path[i] \in DOMAIN registry
       /\ DOMAIN registry # {})
        => \A a \in DOMAIN Exported(registry, dres'.path) :
             \A i \in DOMAIN registry[a].Paths :
               Unsynced(disk, registry[a].Paths[i])
                 => /\ dres'.err = NoErr
                    /\ archive'.exists
                    /\ \A n \in DOMAIN archive'.entries :
                         archive'.entries[n].Name
                           # FilesName \o <<"/", a, "/">> \o registry[a].Paths[i].Destination
    /\ DeployStep
        => \A a \in DOMAIN theBundle.Apps :
             \A i \in DOMAIN theBundle.Apps[a].Paths :
               (/\ ~theBundle.Apps[a].Paths[i].Required
                /\ Unstaged(disk, a, theBundle.Apps[a].Paths[i]))
                 => /\ dres'.err = NoErr
                    /\ a \in dres'.deployed
                    /\ a \in DOMAIN registry'
                    /\ registry'[a].Paths = theBundle.Apps[a].Paths
                    /\ TreeAt(disk', filepathJoin(StoreDir, theBundle.Apps[a].Paths[i].Destination))
                       = TreeAt(disk, filepathJoin(StoreDir, theBundle.Apps[a].Paths[i].Destination))]_vars

\* app x, whose one path was never synced and is not required, was exported
\* without a file, imported, and deployed with nothing copied
C23_Witness ==
  /\ dres.op = "deploy"
  /\ dres.err = NoErr
  /\ "x" \in DOMAIN theBundle.Apps
  /\ theBundle.Apps["x"].Paths = <<BundlePath(<<"a">>, FALSE)>>
  /\ Unstaged(disk, "x", BundlePath(<<"a">>, FALSE))
  /\ Unsynced(disk, BundlePath(<<"a">>, FALSE))
  /\ diskExists(disk, AppFilesDir("x"))
  /\ "x" \in dres.deployed
  /\ "x" \in DOMAIN registry

\* a deploy command ran after a successful import command
DeployCmdStep == dres.op = "import" /\ dres.err = NoErr /\ dres'.op = "deploycmd"

\* C24: after a successful import command, a subsequent deploy command
\* deploys the last imported bundle from the import directory, without
\* needing the original archive again: its outcome is that of DeployBundle
\* on the bundle the import returned.
C24_DeployCommandDeploysTheImportedBundle ==
  [][DeployCmdStep
     => \E order \in AppOrders :
          \E r \in {DeployBundle(disk, registry, theBundle, TargetDir, StoreDir,
                                 dres'.force, order, {})} :
            /\ disk' = r.st.dk
            /\ registry' = r.st.reg
            /\ dres'.deployed = r.st.deployed
            /\ dres'.failed = r.st.failed
            /\ (dres'.err = NoErr) <=> (r.err = NoErr)]_vars

\* the status command ran
StatusStep == out'.op = "status" /\ out.op # "status"

\* C33: every component that resolves a tracked path's source (synchronizer,
\* backup store, status reporting) expands it consistently: a leading ~/ is
\* replaced by the configured home directory joined with the remainder, and
\* any other path is returned unchanged.
C33_SourceExpandedConsistently ==
  [][StatusStep
     => \A p \in Paths :
          LET src == app.Paths[p].Source
              expanded == IF Len(src) >= 2 /\ src[1] = "~" /\ src[2] = "/"
                          THEN HomeDir \o <<"/">> \o SubSeq(src, 3, Len(src))
                          ELSE src
          IN /\ expandPath(src) = expanded
             /\ out'.ops[p].source = expanded]_vars

\* the sidecar document of path p of the app
RecordAt(f, p) == f.binfo[getBackupInfoPath(AppName, expandPath(app.Paths[p].Source))]

\* C40: distinct (appId, destination) pairs always map to distinct snapshot
\* addresses, and distinct original paths to distinct sidecar documents, so
\* a backup of one tracked path never overwrites the snapshot or record of
\* another.
C40_BackupLeavesOtherPathsAlone ==
  [][BackupStep
     => \A q \in Paths \ {out'.p} :
          /\ getBackupPath(AppName, app.Paths[q].Destination)
               # getBackupPath(AppName, app.Paths[out'.p].Destination)
          /\ getBackupInfoPath(AppName, expandPath(app.Paths[q].Source))
               # getBackupInfoPath(AppName, expandPath(app.Paths[out'.p].Source))
          /\ SnapshotAt(fs', q) = SnapshotAt(fs, q)
          /\ RecordAt(fs', q) = RecordAt(fs, q)]_vars

\* C34: two backup calls for the same (appId, destination) with unchanged
\* source content produce snapshots at the same address with identical
\* recorded checksum and size.
C34_BackupIsDeterministic ==
  [][(BackupStep /\ hist[out'.p].last = "backup" /\ fs.src[out'.p] = hist[out'.p].orig)
     => /\ out'.err = NoErr
        /\ RecordAt(fs', out'.p).BackupPath = RecordAt(fs, out'.p).BackupPath
        /\ RecordAt(fs', out'.p).Checksum = RecordAt(fs, out'.p).Checksum
        /\ RecordAt(fs', out'.p).Size = RecordAt(fs, out'.p).Size
        /\ SnapshotAt(fs', out'.p) = SnapshotAt(fs, out'.p)]_vars

\* a file was backed up on one day and again, unchanged, on the next
C34_Witness ==
  /\ out.op = "backup"
  /\ out.err = NoErr
  /\ hist[out.p].last = "backup"
  /\ hist[out.p].moved = hist[out.p].orig
  /\ hist[out.p].orig.k = "file"
  /\ app.Paths[out.p].Type = "file"
  /\ RecordAt(fs, out.p).CreatedAt = 2
  /\ RecordAt(fs, out.p).Checksum # <<>>
  /\ SnapshotAt(fs, out.p) = hist[out.p].orig

\* C39: immediately after a successful backup of a file or directory, with
\* no other change in between, validate on the record just written
\* succeeds, including when an older snapshot of the same path already
\* existed.
C39_ValidateAfterBackupSucceeds ==
  [][(/\ pc = "idle"
      /\ out'.op = "validate"
      /\ out.op = "backup"
      /\ out.err = NoErr
      /\ IsRegular(fs.src[out.p]))
     => out'.err = NoErr]_vars

\* the step is an iteration of SyncApp's loop that was not a dry run
SyncStep == pc = "sync" /\ out'.op = "sync" /\ ~out'.dryRun /\ idx' = idx + 1

\* the step backed the original up and moved it into the store
Moved(ops) == \E i \in DOMAIN ops : ops[i] = "backup"

\* C37: the backup that sync takes before moving an original into the
\* store is recorded under the owning application, so that listing that
\* app's backups returns it and restore for that app and path brings back
\* the pre-sync original.
C37_SyncBackupBelongsToTheApp ==
  [][/\ (SyncStep /\ out'.err = NoErr /\ Moved(out'.ops))
          => \E b \in ListBackups(fs', AppName) :
               /\ b.OriginalPath = expandPath(app.Paths[out'.p].Source)
               /\ fs'.bfiles[b.BackupPath] = fs.src[out'.p]
      /\ (RestoreStep /\ hist[out'.p].last = "syncok" /\ hist[out'.p].moved # None)
          => /\ out'.err = NoErr
             /\ fs'.src[out'.p] = hist[out'.p].moved]_vars

\* C31: removing (deregistering) an application always attempts unsync of
\* all its paths first and deletes the app's registry records only if that
\* unsync reported no failure, so that after a successful removal no source
\* of that app is left as a symlink into the store.
C31_RemoveUnsyncsFirst ==
  [][registry' # registry
     => /\ pc = "unsync"
        /\ idx > Len(app.Paths)
        /\ \A p \in Paths : hist[p].last = "unsync"
        /\ errors = <<>>
        /\ AppName \notin DOMAIN registry'
        /\ \A p \in Paths : fs'.src[p] # Link("store")]_vars

\* the app was removed after its first path, a symlink into the store, was
\* turned back into a copy of the store file
C31_Witness ==
  /\ AppName \notin DOMAIN registry
  /\ ret = [op |-> "remove", failed |-> <<>>]
  /\ hist[1].last = "unsync"
  /\ fs.store[1].k = "file"
  /\ fs.src[1] = fs.store[1]

\* C38: if an app is successfully synced locally at a time after a bundle
\* containing that app was created, a later deploy of that bundle with
\* force false reports a conflict for that app and changes nothing.
C38_SyncAfterBundleIsAConflict ==
  [][(/\ dres.op = "none"
      /\ dres'.op = "deploy"
      /\ ~dres'.force
      /\ ret.op = "synccmd"
      /\ ret.LastSync > theBundle.CreatedAt
      /\ "x" \in DOMAIN theBundle.Apps \cap DOMAIN registry)
     => /\ dres'.err = "use --force to override conflicts"
        /\ disk' = disk
        /\ registry' = registry]_vars

\* content n is still to be found after the step: in the store, at the
\* source, or in the backup store
Recoverable(f, p, n) ==
  \/ f.store[p] = n
  \/ f.src[p] = n
  \/ \E a \in DOMAIN f.bfiles : f.bfiles[a] = n

\* C35: sync never destroys content that is already in the store: when
\* source is a regular file or directory and a store copy already exists at
\* the destination, the pre-existing store content is still recoverable
\* after sync (in the store, at source, or in the backup store).
C35_SyncKeepsStoreContent ==
  [][(/\ SyncStep
      /\ IsRegular(fs.src[out'.p])
      /\ fs.store[out'.p] # None
      /\ fs.store[out'.p] # Dir("empty", <<>>))
     => Recoverable(fs', out'.p, fs.store[out'.p])]_vars

\* C36: a sync of a path that held a file or directory, with nothing at its
\* place in the store, is interrupted after any one of its filesystem
\* calls; when sync is run again the path reaches the Correct state with
\* the original content in the store
StartedRegular ==
  /\ out.op = "interrupted"
  /\ IsRegular(hist[1].moved)
  /\ out.store = None

Recovered ==
  /\ isCorrectSymlink(fs, 1)
  /\ fs.store[1] = hist[1].moved

C36_InterruptedSyncRecovers == StartedRegular ~> Recovered

\* the run after an interruption that came after the rename: it found no
\* source and linked the store copy
C36_Witness ==
  /\ fs.now = 2
  /\ hist[1].last = "syncok"
  /\ hist[1].orig = None
  /\ IsRegular(hist[1].moved)
  /\ Recovered
  /\ fs.bfiles[getBackupPath(TempApp, DestOf(1))] = hist[1].moved

\* C32: two syncs of the same path, its source a file or directory and
\* nothing at its place in the store, interleaved at any filesystem call:
\* when both have returned, either the source is a correct symlink and the
\* store holds the original content, or the source is the untouched
\* original
BothDone == RaceRunning /\ \A i \in Procs : pc[i] = "done"

C32_InterleavedSyncsAreSafe ==
  (/\ BothDone
   /\ IsRegular(hist[1].orig)
   /\ ret.store = None)
  => \/ isCorrectSymlink(fs, 1) /\ fs.store[1] = hist[1].orig
     \/ fs.src[1] = hist[1].orig

====
